---- MODULE Spec2Model ----
(***************************************************************************)
(* Stoplight Analyzer widget (src/src/StoplightAnalyzer.svelte).           *)
(*                                                                         *)
(* State: the five $state cells of the component.  Operations: the event  *)
(* handlers of the template.  The $derived cells and the {#if} blocks of   *)
(* the template are state functions.                                       *)
(*                                                                         *)
(* JavaScript numbers are modelled as exact rationals n/d plus the three   *)
(* non-finite values NaN, Infinity and -Infinity; null is a value of its   *)
(* own that arithmetic and comparison coerce to 0, as ToNumber does.       *)
(* The amounts typed into the controls are drawn from FieldValues, whose   *)
(* members are whole dollar amounts on which IEEE double arithmetic of the *)
(* formulas below is exact.                                                *)
(***************************************************************************)
EXTENDS Integers, Sequences, FiniteSets, TLC

\* event is the name of the handler that ran last ("mount" before any has)
VARIABLES rehabRequired, arvAmount, rehabAmount, purchaseAmount, noRehabValue, event

\* runtime is the state of the reactive runtime of the bundle src/unnamed/part_001;
\* task is what the running event handler has still to write
VARIABLES runtime, task

\* controls is what each input control of StoplightAnalyzer.svelte shows
VARIABLES controls

vars ==
  <<rehabRequired, arvAmount, rehabAmount, purchaseAmount, noRehabValue, event,
    runtime, task, controls>>

inputs == <<arvAmount, rehabAmount, purchaseAmount, noRehabValue>>

----------------------------------------------------------------------------
(* JavaScript number values *)

null == [kind |-> "null", n |-> 0, d |-> 1]

NaN == [kind |-> "NaN", n |-> 0, d |-> 1]

Infinity == [kind |-> "Infinity", n |-> 1, d |-> 1]

NegInfinity == [kind |-> "Infinity", n |-> -1, d |-> 1]

Abs(i) == IF i < 0 THEN -i ELSE i

Sign(i) == IF i < 0 THEN -1 ELSE IF i > 0 THEN 1 ELSE 0

RECURSIVE GCD(_, _)
GCD(a, b) == IF b = 0 THEN a ELSE GCD(b, a % b)

\* the finite number n/d, in lowest terms with a positive denominator
Num(n, d) ==
  LET g == GCD(Abs(n), Abs(d))
      s == Sign(d)
  IN  [kind |-> "number", n |-> (s * n) \div g, d |-> (s * d) \div g]

Whole(i) == [kind |-> "number", n |-> i, d |-> 1]

\* ToNumber: null becomes +0, numbers are unchanged
ToNumber(v) == CHOOSE r \in {IF w.kind = "null" THEN Whole(0) ELSE w : w \in {v}} : TRUE

IsFinite(v) == v.kind = "number"

\* The operators below take their operands through a one-element set, so
\* that an operand expression is evaluated once, as JavaScript evaluates it.

\* a * b on numbers
MulNumbers(a, b) ==
      IF a.kind = "NaN" \/ b.kind = "NaN" THEN NaN
      ELSE IF IsFinite(a) /\ IsFinite(b) THEN Num(a.n * b.n, a.d * b.d)
      ELSE IF Sign(a.n) * Sign(b.n) = 0 THEN NaN
      ELSE IF Sign(a.n) * Sign(b.n) > 0 THEN Infinity ELSE NegInfinity

\* a * b
Mul(x, y) ==
  CHOOSE r \in {MulNumbers(a, b) : a \in {ToNumber(x)}, b \in {ToNumber(y)}} : TRUE

\* a + b on numbers
AddNumbers(a, b) ==
      IF a.kind = "NaN" \/ b.kind = "NaN" THEN NaN
      ELSE IF IsFinite(a) /\ IsFinite(b) THEN Num(a.n * b.d + b.n * a.d, a.d * b.d)
      ELSE IF IsFinite(a) THEN b
      ELSE IF IsFinite(b) THEN a
      ELSE IF a.n = b.n THEN a ELSE NaN

\* a + b
Add(x, y) ==
  CHOOSE r \in {AddNumbers(a, b) : a \in {ToNumber(x)}, b \in {ToNumber(y)}} : TRUE

\* -a on a number
NegNumber(a) == IF a.kind = "NaN" THEN NaN ELSE [a EXCEPT !.n = -a.n]

Neg(x) == CHOOSE r \in {NegNumber(a) : a \in {ToNumber(x)}} : TRUE

\* a - b
Sub(x, y) == Add(x, Neg(y))

\* a / b on numbers; a zero divisor is +0 here (FieldValues holds no
\* negative zero)
DivNumbers(a, b) ==
      IF a.kind = "NaN" \/ b.kind = "NaN" THEN NaN
      ELSE IF IsFinite(a) /\ IsFinite(b) THEN
             IF b.n # 0 THEN Num(a.n * b.d, a.d * b.n)
             ELSE IF a.n = 0 THEN NaN
             ELSE IF a.n > 0 THEN Infinity ELSE NegInfinity
      ELSE IF IsFinite(a) THEN Whole(0)
      ELSE IF IsFinite(b) THEN
             IF Sign(a.n) * (IF b.n < 0 THEN -1 ELSE 1) > 0 THEN Infinity ELSE NegInfinity
      ELSE NaN

\* a / b
Div(x, y) ==
  CHOOSE r \in {DivNumbers(a, b) : a \in {ToNumber(x)}, b \in {ToNumber(y)}} : TRUE

\* a < b on numbers; every comparison with NaN is false
LtNumbers(a, b) ==
      IF a.kind = "NaN" \/ b.kind = "NaN" THEN FALSE
      ELSE IF IsFinite(a) /\ IsFinite(b) THEN a.n * b.d < b.n * a.d
      ELSE IF IsFinite(a) THEN b.n > 0
      ELSE IF IsFinite(b) THEN a.n < 0
      ELSE a.n < b.n

\* a < b
Lt(x, y) == \E a \in {ToNumber(x)}, b \in {ToNumber(y)} : LtNumbers(a, b)

\* a > b
Gt(x, y) == Lt(y, x)

\* a <= b on numbers
LeNumbers(a, b) ==
      IF a.kind = "NaN" \/ b.kind = "NaN" THEN FALSE
      ELSE IF IsFinite(a) /\ IsFinite(b) THEN a.n * b.d <= b.n * a.d
      ELSE IF IsFinite(a) THEN b.n > 0
      ELSE IF IsFinite(b) THEN a.n < 0
      ELSE a.n <= b.n

\* a <= b
Le(x, y) == \E a \in {ToNumber(x)}, b \in {ToNumber(y)} : LeNumbers(a, b)

----------------------------------------------------------------------------
(* Inputs *)

\* whole dollar amounts that a user types into a control
Amounts == {-10000, 0, 10000, 40000, 70000, 80000, 100000, 200000}

\* HTMLInputElement.valueAsNumber: the number typed, or NaN for an empty
\* or unparsable control
FieldValues == {Whole(a) : a \in Amounts} \cup {NaN}

----------------------------------------------------------------------------
(* Component script *)

minLoanAmount == Whole(10000)

asIsValueOf(arv, rehab) == Sub(Mul(Num(7, 10), arv), rehab)

depthOf(arv, rehab, purchase) ==
  Div(Mul(Whole(100), purchase), asIsValueOf(arv, rehab))

purchaseDrawOf(arv, rehab) == Mul(Num(8, 10), asIsValueOf(arv, rehab))

totalLoanAmountOf(arv, rehab) == Add(purchaseDrawOf(arv, rehab), rehab)

\* variant of downpaymentNeededAmountOf that leaves out the 0.8 draw factor
downpaymentNeededAmountOf_NoDrawFactor(arv, rehab, purchase) ==
  Sub(purchase, asIsValueOf(arv, rehab))

downpaymentNeededAmountOf(arv, rehab, purchase) ==
  Sub(purchase, Mul(Num(8, 10), asIsValueOf(arv, rehab)))

\* variant of noRehabLoanAmountOf that uses the 0.8 draw factor
noRehabLoanAmountOf_DrawFactor(value) == Mul(Num(8, 10), value)

noRehabLoanAmountOf(value) == Mul(Num(7, 10), value)

asIsValue == asIsValueOf(arvAmount, rehabAmount)

depth == depthOf(arvAmount, rehabAmount, purchaseAmount)

purchaseDraw == purchaseDrawOf(arvAmount, rehabAmount)

totalLoanAmount == totalLoanAmountOf(arvAmount, rehabAmount)

downpaymentNeededAmount ==
  downpaymentNeededAmountOf(arvAmount, rehabAmount, purchaseAmount)

noRehabLoanAmount == noRehabLoanAmountOf(noRehabValue)

setRehabRequired ==
  /\ rehabRequired' = TRUE
  /\ UNCHANGED inputs

\* variant of setNoRehab that also resets the RehabRequired fields
setNoRehab_ResetsRehabFields ==
  /\ rehabRequired' = FALSE
  /\ arvAmount' = null
  /\ rehabAmount' = null
  /\ purchaseAmount' = null
  /\ UNCHANGED noRehabValue

setNoRehab ==
  /\ rehabRequired' = FALSE
  /\ UNCHANGED inputs

\* variant of setExample that does not write noRehabValue
setExample_SkipsNoRehabValue ==
  /\ arvAmount' = Whole(200000)
  /\ rehabAmount' = Whole(10000)
  /\ purchaseAmount' = Whole(80000)
  /\ UNCHANGED <<rehabRequired, noRehabValue>>

setExample ==
  /\ arvAmount' = Whole(200000)
  /\ noRehabValue' = Whole(100000)
  /\ rehabAmount' = Whole(10000)
  /\ purchaseAmount' = Whole(80000)
  /\ UNCHANGED rehabRequired

\* variant of clearScenario that does not reset purchaseAmount
\* variant of clearScenario that leaves noRehabValue as it is
clearScenario_KeepsNoRehabValue ==
  /\ arvAmount' = null
  /\ rehabAmount' = null
  /\ purchaseAmount' = null
  /\ UNCHANGED <<rehabRequired, noRehabValue>>

clearScenario_KeepsPurchaseAmount ==
  /\ arvAmount' = null
  /\ noRehabValue' = null
  /\ rehabAmount' = null
  /\ UNCHANGED <<rehabRequired, purchaseAmount>>

clearScenario ==
  /\ arvAmount' = null
  /\ noRehabValue' = null
  /\ rehabAmount' = null
  /\ purchaseAmount' = null
  /\ UNCHANGED rehabRequired

----------------------------------------------------------------------------
(* Template *)

\* variant of arvInputKeyup that enforces the min attribute of the control
arvInputKeyup_EnforcesMin(valueAsNumber) ==
  /\ rehabRequired
  /\ arvAmount' = IF Lt(valueAsNumber, minLoanAmount) THEN minLoanAmount ELSE valueAsNumber
  /\ UNCHANGED <<rehabRequired, rehabAmount, purchaseAmount, noRehabValue>>

\* onkeyup of #arvInput, which exists only inside {#if rehabRequired}
arvInputKeyup(valueAsNumber) ==
  /\ rehabRequired
  /\ arvAmount' = valueAsNumber
  /\ UNCHANGED <<rehabRequired, rehabAmount, purchaseAmount, noRehabValue>>

rehabInputKeyup(valueAsNumber) ==
  /\ rehabRequired
  /\ rehabAmount' = valueAsNumber
  /\ UNCHANGED <<rehabRequired, arvAmount, purchaseAmount, noRehabValue>>

purchaseInputKeyup(valueAsNumber) ==
  /\ rehabRequired
  /\ purchaseAmount' = valueAsNumber
  /\ UNCHANGED <<rehabRequired, arvAmount, rehabAmount, noRehabValue>>

\* onkeyup of #noRehabValueInput, which exists only in the {:else} branch
noRehabValueInputKeyup(valueAsNumber) ==
  /\ ~rehabRequired
  /\ noRehabValue' = valueAsNumber
  /\ UNCHANGED <<rehabRequired, arvAmount, rehabAmount, purchaseAmount>>

\* variant of displayGuardOf that tests totalLoanAmount only
displayGuardOf_TotalOnly(arv, rehab, purchase) ==
  Gt(totalLoanAmountOf(arv, rehab), minLoanAmount)

\* variant of displayGuardOf that tests noRehabLoanAmount in place of
\* totalLoanAmount
displayGuardOf_NoRehabLoan(arv, rehab, purchase) ==
  /\ Gt(noRehabLoanAmount, minLoanAmount)
  /\ Gt(rehab, Whole(0))
  /\ Gt(purchase, minLoanAmount)

\* {#if totalLoanAmount > minLoanAmount && rehabAmount > 0 && purchaseAmount > minLoanAmount}
displayGuardOf(arv, rehab, purchase) ==
  /\ Gt(totalLoanAmountOf(arv, rehab), minLoanAmount)
  /\ Gt(rehab, Whole(0))
  /\ Gt(purchase, minLoanAmount)

displayGuard == displayGuardOf(arvAmount, rehabAmount, purchaseAmount)

\* variant of rehabRequiredOutcomeOf that tests depth <= 100 before depth <= 80
rehabRequiredOutcomeOf_WrongOrder(arv, rehab, purchase) ==
  IF displayGuardOf(arv, rehab, purchase)
  THEN IF Le(depthOf(arv, rehab, purchase), Whole(100)) THEN "FundableWithDownpayment"
       ELSE IF Le(depthOf(arv, rehab, purchase), Whole(80)) THEN "FullyFundable"
       ELSE "NotFundable"
  ELSE "NoOutcomeYet"

\* variant of rehabRequiredOutcomeOf whose first test is depth < 80
rehabRequiredOutcomeOf_StrictFirst(arv, rehab, purchase) ==
  IF displayGuardOf(arv, rehab, purchase)
  THEN IF Lt(depthOf(arv, rehab, purchase), Whole(80)) THEN "FullyFundable"
       ELSE IF Le(depthOf(arv, rehab, purchase), Whole(100)) THEN "FundableWithDownpayment"
       ELSE "NotFundable"
  ELSE "NoOutcomeYet"

\* the panel rendered inside {#if rehabRequired}
rehabRequiredOutcomeOf(arv, rehab, purchase) ==
  IF displayGuardOf(arv, rehab, purchase)
  THEN IF Le(depthOf(arv, rehab, purchase), Whole(80)) THEN "FullyFundable"
       ELSE IF Le(depthOf(arv, rehab, purchase), Whole(100)) THEN "FundableWithDownpayment"
       ELSE "NotFundable"
  ELSE "NoOutcomeYet"

rehabRequiredOutcome ==
  rehabRequiredOutcomeOf(arvAmount, rehabAmount, purchaseAmount)

\* the panel rendered inside the {:else} branch
noRehabOutcome ==
  IF Gt(noRehabLoanAmount, minLoanAmount) THEN "NoRehabFunded" ELSE "NoOutcomeYet"

\* the panel on screen
outcome == IF rehabRequired THEN rehabRequiredOutcome ELSE noRehabOutcome

\* variant of downpaymentRow that always formats downpaymentNeededAmount
downpaymentRow_Unconditional == downpaymentNeededAmount

\* the Downpayment cell of loanCalc: the amount when positive, else $0.00
downpaymentRow ==
  IF Gt(downpaymentNeededAmount, Whole(0)) THEN downpaymentNeededAmount ELSE Whole(0)

\* Intl.NumberFormat('en-US', {style: 'currency', currency: 'USD'}).format:
\* the amount rounded to cents, halves away from zero; null formats as 0,
\* NaN and the infinities format as themselves
currencyFormat(v) ==
  CHOOSE r \in { IF ~IsFinite(a) THEN a
                 ELSE Num(Sign(a.n) * ((2 * 100 * Abs(a.n) + a.d) \div (2 * a.d)), 100)
                 : a \in {ToNumber(v)} } : TRUE

\* {#snippet valueCalc()}: the rows it renders, as <<label, text>>
valueCalc == {<<"As-Is Value", currencyFormat(asIsValue)>>}

\* {#snippet loanCalc()}
loanCalc ==
  { <<"Downpayment", currencyFormat(downpaymentRow)>>,
    <<"Loan at Purchase", currencyFormat(purchaseDraw)>>,
    <<"Rehab Amount", currencyFormat(rehabAmount)>>,
    <<"Total Loan Amount", currencyFormat(totalLoanAmount)>> }

\* variant of rehabRequiredPanel whose NotFundable panel renders loanCalc too
rehabRequiredPanel_DangerWithLoanCalc ==
  CASE rehabRequiredOutcome = "NoOutcomeYet" -> {}
    [] OTHER -> valueCalc \cup loanCalc

\* the rows of the alert rendered inside {#if rehabRequired}
rehabRequiredPanel ==
  CASE rehabRequiredOutcome = "FullyFundable" -> valueCalc \cup loanCalc
    [] rehabRequiredOutcome = "FundableWithDownpayment" -> valueCalc \cup loanCalc
    [] rehabRequiredOutcome = "NotFundable" -> valueCalc
    [] OTHER -> {}

\* the rows of the alert rendered inside the {:else} branch
noRehabPanel ==
  IF noRehabOutcome = "NoRehabFunded"
  THEN {<<"No rehab", currencyFormat(noRehabLoanAmount)>>}
  ELSE {}

\* the alerts in the document, each with its rows: {#if rehabRequired}
\* renders one branch only
renderedAlerts ==
  IF rehabRequired
  THEN IF rehabRequiredOutcome # "NoOutcomeYet"
       THEN {<<rehabRequiredOutcome, rehabRequiredPanel>>} ELSE {}
  ELSE IF noRehabOutcome # "NoOutcomeYet"
       THEN {<<noRehabOutcome, noRehabPanel>>} ELSE {}

----------------------------------------------------------------------------
(* The reactive runtime of src/unnamed/part_001, and the signals and        *)
(* effects that the compiled Embed component of that bundle creates on it.  *)
(* A runtime state rt is a record: v, f (status), wv, deps (non-null?),     *)
(* reactions and disconnected keep the fields of the signal and effect      *)
(* objects; alive is membership of the effect tree; condition is the        *)
(* closure variable of each if_block; alerts and text are the document.     *)
(* Every derived of Embed is created under an active effect and read from   *)
(* inside a block effect, so the UNOWNED flag is never set; the components  *)
(* of sveltestrap are external to the bundle and add no effect here.  The   *)
(* reactions of a signal are kept as a set: their order only orders the     *)
(* marking.                                                                 *)

Sources == {"arvAmount", "rehabAmount", "purchaseAmount", "noRehabValue"}

Deriveds ==
  {"asIsValue", "depth", "purchaseDraw", "totalLoanAmount",
   "downpaymentNeededAmount", "noRehabLoanAmount"}

\* the deriveds that template_effect makes of its thunks, each named after the
\* text node it fills
Thunks == {"text", "text_1", "text_2", "text_3", "text_4", "text_5", "text_6", "text_7"}

Values == Sources \cup Deriveds \cup Thunks

component_root == "component_root"

Branches ==
  {"mount", "consequent_2", "consequent", "alternate", "consequent_1",
   "alternate_1", "consequent_3"}

IfBlocks == {"node_5", "node_6", "elseif", "node_9"}

TemplateEffects ==
  {"consequent.template_effect", "consequent_1.template_effect",
   "consequent_3.template_effect"}

Effects == {component_root} \cup Branches \cup IfBlocks \cup TemplateEffects

Reactions == Deriveds \cup Thunks \cup IfBlocks \cup TemplateEffects

Range(s) == {s[i] : i \in 1..Len(s)}

\* the signals that the function of a reaction reads, in the order it reads them
DepsOf(reaction) ==
  CASE reaction = "asIsValue" -> <<"arvAmount", "rehabAmount">>
    [] reaction = "depth" -> <<"purchaseAmount", "asIsValue">>
    [] reaction = "purchaseDraw" -> <<"asIsValue">>
    [] reaction = "totalLoanAmount" -> <<"purchaseDraw", "rehabAmount">>
    [] reaction = "downpaymentNeededAmount" -> <<"purchaseAmount", "asIsValue">>
    [] reaction = "noRehabLoanAmount" -> <<"noRehabValue">>
    [] reaction = "text" -> <<"purchaseDraw">>
    [] reaction = "text_1" -> <<"rehabAmount">>
    [] reaction = "text_2" -> <<"totalLoanAmount">>
    [] reaction = "text_3" -> <<"downpaymentNeededAmount">>
    [] reaction = "text_4" -> <<"purchaseDraw">>
    [] reaction = "text_5" -> <<"rehabAmount">>
    [] reaction = "text_6" -> <<"totalLoanAmount">>
    [] reaction = "text_7" -> <<"noRehabLoanAmount">>
    [] reaction = "node_5" -> <<"totalLoanAmount">>
    [] reaction = "node_6" -> <<"depth">>
    [] reaction = "elseif" -> <<"depth">>
    [] reaction = "node_9" -> <<"noRehabLoanAmount">>
    [] reaction = "consequent.template_effect" -> <<"text", "text_1", "text_2">>
    [] reaction = "consequent_1.template_effect" ->
         <<"text_3", "text_4", "text_5", "text_6">>
    [] reaction = "consequent_3.template_effect" -> <<"text_7">>

\* the function of a derived, applied to the values it has read
DerivedFn(derived, read) ==
  CASE derived = "asIsValue" -> Sub(Mul(Num(7, 10), read[1]), read[2])
    [] derived = "depth" -> Div(read[1], read[2])
    [] derived = "purchaseDraw" -> Mul(Num(8, 10), read[1])
    [] derived = "totalLoanAmount" -> Add(read[1], read[2])
    [] derived = "downpaymentNeededAmount" -> Sub(read[1], Mul(Num(8, 10), read[2]))
    [] derived = "noRehabLoanAmount" -> Mul(Num(7, 10), read[1])
    [] derived \in Thunks -> currencyFormat(read[1])

\* the effect tree: the children each effect can have, in the order of its list
ChildrenOf(effect) ==
  CASE effect = component_root -> <<"mount">>
    [] effect = "mount" -> <<"node_5", "node_9">>
    [] effect = "node_5" -> <<"consequent_2">>
    [] effect = "consequent_2" -> <<"node_6">>
    [] effect = "node_6" -> <<"consequent", "alternate">>
    [] effect = "consequent" -> <<"consequent.template_effect">>
    [] effect = "alternate" -> <<"elseif">>
    [] effect = "elseif" -> <<"consequent_1", "alternate_1">>
    [] effect = "consequent_1" -> <<"consequent_1.template_effect">>
    [] effect = "node_9" -> <<"consequent_3">>
    [] effect = "consequent_3" -> <<"consequent_3.template_effect">>
    [] OTHER -> <<>>

ParentOf(effect) ==
  IF effect = component_root THEN "null"
  ELSE CHOOSE parent \in Effects : effect \in Range(ChildrenOf(parent))

\* the branch an if_block renders for a true condition
ConsequentOf(block) ==
  CASE block = "node_5" -> "consequent_2"
    [] block = "node_6" -> "consequent"
    [] block = "elseif" -> "consequent_1"
    [] block = "node_9" -> "consequent_3"

\* the branch an if_block renders for a false condition, where it has one
AlternateOf(block) ==
  CASE block = "node_6" -> "alternate"
    [] block = "elseif" -> "alternate_1"
    [] OTHER -> "null"

\* the condition an if_block passes to update_branch for the value it has read
ConditionOf(block, value) ==
  CASE block = "node_5" -> IF Gt(value, minLoanAmount) THEN "true" ELSE "null"
    [] block = "node_6" -> IF Le(value, Num(8, 10)) THEN "true" ELSE "false"
    [] block = "elseif" -> IF Le(value, Whole(1)) THEN "true" ELSE "false"
    [] block = "node_9" -> IF Gt(value, minLoanAmount) THEN "true" ELSE "null"

\* the Alert a branch appends to the document, if any
AlertOf(effect) ==
  CASE effect = "consequent" -> {"FullyFundable"}
    [] effect = "consequent_1" -> {"FundableWithDownpayment"}
    [] effect = "alternate_1" -> {"NotFundable"}
    [] effect = "consequent_3" -> {"NoRehabFunded"}
    [] OTHER -> {}

\* the content of a text node of a template before set_text
EmptyText == [kind |-> "text", n |-> 0, d |-> 1]

\* the runtime before Embed is mounted
unmounted ==
  [ v |-> [s \in Values |-> null],
    f |-> [r \in Reactions \cup Effects |-> IF r \in Deriveds THEN "DIRTY" ELSE "DESTROYED"],
    wv |-> [x \in Values \cup Effects |-> 0],
    deps |-> [r \in Reactions |-> FALSE],
    reactions |-> [s \in Values |-> {}],
    disconnected |-> [d \in Deriveds \cup Thunks |-> FALSE],
    alive |-> [e \in Effects |-> FALSE],
    condition |-> [b \in IfBlocks |-> "UNINITIALIZED"],
    alerts |-> {},
    text |-> [t \in Thunks |-> EmptyText],
    write_version |-> 1,
    queued_root_effects |-> 0,
    is_flushing |-> FALSE,
    microtasks |-> 0,
    flush_count |-> 0,
    error |-> "none" ]

set_signal_status(rt, signal, status) == [rt EXCEPT !.f[signal] = status]

\* value === this.v; the texts of currency.format are strings
equals(rt, signal, value) ==
  IF signal \in Thunks THEN value = rt.v[signal]
  ELSE value.kind # "NaN" /\ value = rt.v[signal]

RECURSIVE walk_parents(_, _)
\* the while loop of schedule_effect
walk_parents(rt0, effect) ==
  CHOOSE result \in
    { IF parent = "null"
      THEN [rt EXCEPT !.queued_root_effects = @ + 1]
      ELSE IF parent \in Branches \cup {component_root}
      THEN IF rt.f[parent] # "CLEAN" THEN rt
           ELSE walk_parents([rt EXCEPT !.f[parent] = "NONE"], parent)
      ELSE walk_parents(rt, parent)
      : rt \in {rt0}, parent \in {ParentOf(effect)} } : TRUE

\* variant of schedule_effect that queues a microtask without testing
\* is_flushing
schedule_effect_AlwaysQueues(rt, signal) ==
  walk_parents([rt EXCEPT !.is_flushing = TRUE, !.microtasks = @ + 1], signal)

\* microtasks counts the flush_queued_root_effects calls that queueMicrotask
\* has queued
schedule_effect(rt0, signal) ==
  CHOOSE result \in
    { IF ~rt.is_flushing
      THEN walk_parents([rt EXCEPT !.is_flushing = TRUE, !.microtasks = @ + 1], signal)
      ELSE walk_parents(rt, signal)
      : rt \in {rt0} } : TRUE

RECURSIVE mark_reactions(_, _, _)
RECURSIVE mark_each(_, _, _)
\* the for loop of mark_reactions
mark_each(rt0, reactions0, status) ==
  CHOOSE result \in
    { IF reactions = {} THEN rt
      ELSE CHOOSE marked \in
             { IF rt.f[reaction] = "DIRTY"
               THEN mark_each(rt, reactions \ {reaction}, status)
               ELSE mark_each(
                      IF rt.f[reaction] = "CLEAN"
                      THEN IF reaction \in Deriveds \cup Thunks
                           THEN mark_reactions(set_signal_status(rt, reaction, status),
                                               reaction, "MAYBE_DIRTY")
                           ELSE schedule_effect(set_signal_status(rt, reaction, status),
                                                reaction)
                      ELSE set_signal_status(rt, reaction, status),
                      reactions \ {reaction}, status)
               : reaction \in {CHOOSE r \in reactions : TRUE} } : TRUE
      : rt \in {rt0}, reactions \in {reactions0} } : TRUE

mark_reactions(rt0, signal, status) ==
  CHOOSE result \in { mark_each(rt, rt.reactions[signal], status) : rt \in {rt0} } : TRUE

\* variant of internal_set that does not mark the reactions of the source
internal_set_NoMark(rt0, source, value0) ==
  CHOOSE result \in
    { IF equals(rt, source, value) THEN rt
      ELSE [rt EXCEPT !.v[source] = value,
                      !.wv[source] = rt.write_version + 1,
                      !.write_version = @ + 1]
      : rt \in {rt0}, value \in {value0} } : TRUE

internal_set(rt0, source, value0) ==
  CHOOSE result \in
    { IF equals(rt, source, value) THEN rt
      ELSE mark_reactions([rt EXCEPT !.v[source] = value,
                                     !.wv[source] = rt.write_version + 1,
                                     !.write_version = @ + 1],
                          source, "DIRTY")
      : rt \in {rt0}, value \in {value0} } : TRUE

\* a handler runs outside every reaction, and proxy leaves a number as it is
set(rt, source, value) == internal_set(rt, source, value)

\* update_reaction installs the dependencies read by a first run; a later run
\* reads the same signals in the same order and keeps them
install_deps(rt0, reaction) ==
  CHOOSE result \in
    { IF rt.deps[reaction] THEN rt
      ELSE [rt EXCEPT !.deps[reaction] = TRUE,
                      !.reactions = [s \in Values |->
                                       IF s \in Range(DepsOf(reaction))
                                       THEN rt.reactions[s] \cup {reaction}
                                       ELSE rt.reactions[s]]]
      : rt \in {rt0} } : TRUE

RECURSIVE get(_, _)
RECURSIVE refresh(_, _)
RECURSIVE check_dirtiness(_, _)
RECURSIVE check_dependencies(_, _, _)
RECURSIVE update_derived(_, _)
RECURSIVE read_dependencies(_, _, _)

\* if (check_dirtiness(derived)) update_derived(derived), of get and of
\* check_dirtiness; a source is never dirty
refresh(rt0, signal) ==
  CHOOSE result \in
    { IF checked.dirty THEN update_derived(checked.rt, signal) ELSE checked.rt
      : checked \in { IF signal \in Deriveds \cup Thunks
                      THEN check_dirtiness(rt0, signal)
                      ELSE [rt |-> rt0, dirty |-> FALSE] } } : TRUE

\* the second for loop of check_dirtiness
check_dependencies(rt0, reaction, i) ==
  CHOOSE result \in
    { IF i > Len(DepsOf(reaction))
      THEN [rt |-> set_signal_status(rt, reaction, "CLEAN"), dirty |-> FALSE]
      ELSE CHOOSE checked \in
             { IF updated.wv[DepsOf(reaction)[i]] > updated.wv[reaction]
               THEN [rt |-> updated, dirty |-> TRUE]
               ELSE check_dependencies(updated, reaction, i + 1)
               : updated \in {refresh(rt, DepsOf(reaction)[i])} } : TRUE
      : rt \in {rt0} } : TRUE

check_dirtiness(rt0, reaction) ==
  CHOOSE result \in
    { IF rt.f[reaction] = "DIRTY" THEN [rt |-> rt, dirty |-> TRUE]
      ELSE IF rt.f[reaction] = "MAYBE_DIRTY"
      THEN IF rt.deps[reaction]
           THEN check_dependencies(
                  \* is_disconnected: the derived goes back into the reactions
                  \* of its dependencies
                  IF reaction \in Deriveds \cup Thunks /\ rt.disconnected[reaction]
                  THEN [rt EXCEPT !.disconnected[reaction] = FALSE,
                                  !.reactions = [s \in Values |->
                                                   IF s \in Range(DepsOf(reaction))
                                                   THEN rt.reactions[s] \cup {reaction}
                                                   ELSE rt.reactions[s]]]
                  ELSE rt,
                  reaction, 1)
           ELSE [rt |-> set_signal_status(rt, reaction, "CLEAN"), dirty |-> FALSE]
      ELSE [rt |-> rt, dirty |-> FALSE]
      : rt \in {rt0} } : TRUE

\* the reads that the function of a reaction makes, one get after the other
read_dependencies(rt0, dependencies, read) ==
  IF dependencies = <<>> THEN [rt |-> rt0, read |-> read]
  ELSE CHOOSE result \in
         { read_dependencies(got.rt, Tail(dependencies), Append(read, got.v))
           : got \in {get(rt0, Head(dependencies))} } : TRUE

update_derived(rt0, derived) ==
  CHOOSE result \in
    { CHOOSE updated \in
        { IF equals(clean, derived, value) THEN clean
          ELSE [clean EXCEPT !.v[derived] = value,
                             !.wv[derived] = clean.write_version + 1,
                             !.write_version = @ + 1]
          : clean \in {set_signal_status(install_deps(executed.rt, derived),
                                         derived, "CLEAN")},
            value \in {DerivedFn(derived, executed.read)} } : TRUE
      : executed \in {read_dependencies(rt0, DepsOf(derived), <<>>)} } : TRUE

get(rt0, signal) ==
  CHOOSE result \in
    { [rt |-> updated, v |-> updated.v[signal]] : updated \in {refresh(rt0, signal)} } : TRUE

RECURSIVE remove_reaction(_, _, _)
RECURSIVE remove_reactions(_, _, _)

remove_reactions(rt0, signal, i) ==
  CHOOSE result \in
    { IF ~rt.deps[signal] \/ i > Len(DepsOf(signal)) THEN rt
      ELSE remove_reactions(remove_reaction(rt, signal, DepsOf(signal)[i]), signal, i + 1)
      : rt \in {rt0} } : TRUE

\* a derived left without reactions is disconnected from the graph
remove_reaction(rt0, signal, dependency) ==
  CHOOSE result \in
    { IF removed.reactions[dependency] = {} /\ dependency \in Deriveds \cup Thunks
      THEN remove_reactions([removed EXCEPT !.f[dependency] = "MAYBE_DIRTY",
                                            !.disconnected[dependency] = TRUE],
                            dependency, 1)
      ELSE removed
      : removed \in {[rt0 EXCEPT !.reactions[dependency] = @ \ {signal}]} } : TRUE

RECURSIVE destroy_effect(_, _)
RECURSIVE destroy_effect_children(_, _)

destroy_effect_children(rt0, children) ==
  CHOOSE result \in
    { IF children = <<>> THEN rt
      ELSE destroy_effect_children(
             IF rt.alive[Head(children)] THEN destroy_effect(rt, Head(children)) ELSE rt,
             Tail(children))
      : rt \in {rt0} } : TRUE

\* the nodes of the effect leave the document, its children are destroyed and
\* it leaves the reactions of its dependencies
destroy_effect(rt, effect) ==
  LET removed == [rt EXCEPT !.alerts = @ \ AlertOf(effect)]
      childless == destroy_effect_children(removed, ChildrenOf(effect))
      unlinked == IF effect \in Reactions THEN remove_reactions(childless, effect, 1)
                  ELSE childless
  IN [unlinked EXCEPT !.f[effect] = "DESTROYED",
                      !.alive[effect] = FALSE,
                      !.deps = [r \in Reactions |-> IF r = effect THEN FALSE ELSE @[r]]]

\* derived(fn) for each thunk of a template effect
derived(rt, thunks) ==
  [rt EXCEPT !.v = [s \in Values |-> IF s \in thunks THEN null ELSE @[s]],
             !.f = [r \in Reactions \cup Effects |-> IF r \in thunks THEN "DIRTY" ELSE @[r]],
             !.wv = [x \in Values \cup Effects |-> IF x \in thunks THEN 0 ELSE @[x]],
             !.deps = [r \in Reactions |-> IF r \in thunks THEN FALSE ELSE @[r]],
             !.reactions = [s \in Values |-> IF s \in thunks THEN {} ELSE @[s]],
             !.disconnected = [d \in Deriveds \cup Thunks |->
                                 IF d \in thunks THEN FALSE ELSE @[d]],
             !.text = [t \in Thunks |-> IF t \in thunks THEN EmptyText ELSE @[t]]]

\* set_text for each text node of a template effect
set_text(rt, effect, read) ==
  [rt EXCEPT !.text = [t \in Thunks |->
                         IF \E i \in 1..Len(read) : DepsOf(effect)[i] = t
                         THEN read[CHOOSE i \in 1..Len(read) : DepsOf(effect)[i] = t]
                         ELSE @[t]]]

RECURSIVE update_effect(_, _)
RECURSIVE update_branch(_, _, _)
RECURSIVE branch(_, _)
RECURSIVE block(_, _)

\* create_effect(RENDER_EFFECT | BLOCK_EFFECT, fn, true): a new effect, run at once
block(rt, effect) ==
  update_effect(
    [rt EXCEPT !.alive[effect] = TRUE,
               !.f[effect] = "DIRTY",
               !.wv[effect] = 0,
               !.deps[effect] = FALSE,
               !.condition = [b \in IfBlocks |->
                                IF b = effect THEN "UNINITIALIZED" ELSE @[b]]],
    effect)

template_effect(rt, effect) == block(derived(rt, Range(DepsOf(effect))), effect)

\* create_effect(RENDER_EFFECT | BRANCH_EFFECT, fn, true): the branch renders
\* its fragment and creates the effects inside it
branch(rt0, effect) ==
  CHOOSE result \in
    { [rendered EXCEPT !.wv[effect] = rendered.write_version]
      : rendered \in
          { CASE effect = "mount" -> block(block(created, "node_5"), "node_9")
              [] effect = "consequent_2" -> block(created, "node_6")
              [] effect = "consequent" ->
                   template_effect(created, "consequent.template_effect")
              [] effect = "alternate" -> block(created, "elseif")
              [] effect = "consequent_1" ->
                   template_effect(created, "consequent_1.template_effect")
              [] effect = "alternate_1" -> created
              [] effect = "consequent_3" ->
                   template_effect(created, "consequent_3.template_effect")
            : created \in {[rt0 EXCEPT !.alive[effect] = TRUE,
                                      !.f[effect] = "CLEAN",
                                      !.alerts = @ \cup AlertOf(effect)]} } } : TRUE

\* update_branch of if_block; without transitions pause_effect destroys at once
update_branch(rt0, effect, new_condition) ==
  CHOOSE result \in
    { IF rt.condition[effect] = new_condition THEN rt
      ELSE CHOOSE updated \in
             { IF new_condition = "true"
               THEN IF AlternateOf(effect) # "null" /\ shown.alive[AlternateOf(effect)]
                    THEN destroy_effect(shown, AlternateOf(effect))
                    ELSE shown
               ELSE IF shown.alive[ConsequentOf(effect)]
                    THEN destroy_effect(shown, ConsequentOf(effect))
                    ELSE shown
               : shown \in
                   { IF new_condition = "true"
                     THEN IF rt.alive[ConsequentOf(effect)]
                          THEN [rt EXCEPT !.condition[effect] = new_condition]
                          ELSE branch([rt EXCEPT !.condition[effect] = new_condition],
                                      ConsequentOf(effect))
                     ELSE IF new_condition = "false" /\ ~rt.alive[AlternateOf(effect)]
                          THEN branch([rt EXCEPT !.condition[effect] = new_condition],
                                      AlternateOf(effect))
                          ELSE [rt EXCEPT !.condition[effect] = new_condition] } } : TRUE
      : rt \in {rt0} } : TRUE

\* update_effect of a block effect: an if_block or a template effect
update_effect(rt0, effect) ==
  CHOOSE result \in
    { CHOOSE updated \in
        { [installed EXCEPT !.wv[effect] = installed.write_version]
          : installed \in
              { install_deps(
                  IF effect \in IfBlocks
                  THEN update_branch(executed.rt, effect,
                                     ConditionOf(effect, executed.read[1]))
                  ELSE set_text(executed.rt, effect, executed.read),
                  effect) } } : TRUE
      : executed \in {read_dependencies(set_signal_status(rt0, effect, "CLEAN"),
                                        DepsOf(effect), <<>>)} } : TRUE

RECURSIVE process_effects(_, _)
RECURSIVE process_children(_, _)

process_children(rt, children) ==
  IF children = <<>> THEN rt
  ELSE process_children(process_effects(rt, Head(children)), Tail(children))

\* variant of process_effects that takes every branch for a clean one
process_effects_SkipsBranches(rt0, effect) ==
  CHOOSE result \in
    { IF ~rt.alive[effect] THEN rt
      ELSE IF effect \in Branches \cup {component_root} THEN rt
      ELSE CHOOSE visited \in
             { process_children(
                 IF checked.dirty THEN update_effect(checked.rt, effect) ELSE checked.rt,
                 ChildrenOf(effect))
               : checked \in {check_dirtiness(rt, effect)} } : TRUE
      : rt \in {rt0} } : TRUE

\* the traversal of process_effects from one effect down
process_effects(rt0, effect) ==
  CHOOSE result \in
    { IF ~rt.alive[effect] THEN rt
      ELSE IF effect \in Branches \cup {component_root}
      THEN IF rt.f[effect] = "CLEAN" THEN rt
           ELSE process_children([rt EXCEPT !.f[effect] = "CLEAN"], ChildrenOf(effect))
      ELSE CHOOSE visited \in
             { process_children(
                 IF checked.dirty THEN update_effect(checked.rt, effect) ELSE checked.rt,
                 ChildrenOf(effect))
               : checked \in {check_dirtiness(rt, effect)} } : TRUE
      : rt \in {rt0} } : TRUE

RECURSIVE process_roots(_, _)
\* the for loop of flush_queued_root_effects
process_roots(rt, length) ==
  IF length = 0 THEN rt
  ELSE process_roots(process_effects(rt, component_root), length - 1)

RECURSIVE flush_loop(_, _)
\* the while loop of flush_queued_root_effects
flush_loop(rt0, flush_count) ==
  CHOOSE result \in
    { IF rt.queued_root_effects = 0 THEN [rt EXCEPT !.flush_count = flush_count]
      ELSE IF flush_count > 1000
      THEN [rt EXCEPT !.flush_count = flush_count + 1,
                      !.error = "effect_update_depth_exceeded"]
      ELSE flush_loop(process_roots([rt EXCEPT !.queued_root_effects = 0],
                                    rt.queued_root_effects),
                      flush_count + 1)
      : rt \in {rt0} } : TRUE

flush_queued_root_effects(rt) == [flush_loop(rt, 0) EXCEPT !.is_flushing = FALSE]

\* mount: component_root runs a branch that runs Embed
Embed ==
  CHOOSE result \in
    { [mounted EXCEPT !.wv[component_root] = mounted.write_version]
      : mounted \in {branch([unmounted EXCEPT !.alive[component_root] = TRUE,
                                             !.f[component_root] = "CLEAN"],
                            "mount")} } : TRUE

----------------------------------------------------------------------------
(* Specification *)

\* a control that is not in the document
Absent == [kind |-> "absent", n |-> 0, d |-> 1]

\* a control with nothing in it
EmptyControl == [kind |-> "empty", n |-> 0, d |-> 1]

\* the controls that {#if rehabRequired} creates for a mode: none has a value
\* attribute or a binding, so each starts empty
controlsOf(mode) ==
  [ arvInput |-> IF mode THEN EmptyControl ELSE Absent,
    rehabInput |-> IF mode THEN EmptyControl ELSE Absent,
    purchaseInput |-> IF mode THEN EmptyControl ELSE Absent,
    noRehabValueInput |-> IF mode THEN Absent ELSE EmptyControl ]

\* variant of Init that mounts on the No Rehab tab
Init_NoRehabTab ==
  /\ rehabRequired = FALSE
  /\ arvAmount = null
  /\ rehabAmount = null
  /\ purchaseAmount = null
  /\ noRehabValue = null
  /\ event = "mount"
  /\ runtime = Embed
  /\ task = <<>>
  /\ controls = controlsOf(FALSE)

Init ==
  /\ rehabRequired = TRUE
  /\ arvAmount = null
  /\ rehabAmount = null
  /\ purchaseAmount = null
  /\ noRehabValue = null
  /\ event = "mount"
  /\ runtime = Embed
  /\ task = <<>>
  /\ controls = controlsOf(TRUE)

Next ==
  \/ setRehabRequired /\ event' = "setRehabRequired"
       /\ UNCHANGED <<runtime, task, controls>>
  \/ setNoRehab /\ event' = "setNoRehab"
       /\ UNCHANGED <<runtime, task, controls>>
  \/ setExample /\ event' = "setExample"
       /\ UNCHANGED <<runtime, task, controls>>
  \/ clearScenario /\ event' = "clearScenario"
       /\ UNCHANGED <<runtime, task, controls>>
  \/ \E v \in FieldValues : arvInputKeyup(v) /\ event' = "arvInputKeyup"
       /\ UNCHANGED <<runtime, task, controls>>
  \/ \E v \in FieldValues : rehabInputKeyup(v) /\ event' = "rehabInputKeyup"
       /\ UNCHANGED <<runtime, task, controls>>
  \/ \E v \in FieldValues : purchaseInputKeyup(v) /\ event' = "purchaseInputKeyup"
       /\ UNCHANGED <<runtime, task, controls>>
  \/ \E v \in FieldValues : noRehabValueInputKeyup(v) /\ event' = "noRehabValueInputKeyup"
       /\ UNCHANGED <<runtime, task, controls>>

\* No handler reads a control: onkeyup takes the valueAsNumber of what has
\* been typed, which is the parameter of the keyup actions.  Next therefore
\* leaves controls alone, and ControlsNext below follows what they show.
Spec == Init /\ [][Next]_vars

\* valueAsNumber of a number control: NaN when it is empty
valueAsNumber(control) == IF control.kind = "number" THEN control ELSE NaN

\* the default action of a type="reset" button: every control of the form
\* goes back to its default value, which is empty
formReset(c) ==
  [k \in DOMAIN c |-> IF c[k].kind = "absent" THEN Absent ELSE EmptyControl]

\* what is typed into a control
ControlAmounts == {10000, 80000, 200000}

TypedContents == {Whole(a) : a \in ControlAmounts} \cup {EmptyControl}

\* the widget of StoplightAnalyzer.svelte with its controls: a key typed into
\* a control, a tab button, and the two reset buttons, whose onclick handler
\* runs before the form is reset
ControlsNext ==
  \/ /\ setRehabRequired /\ event' = "setRehabRequired"
     /\ controls' = IF rehabRequired THEN controls ELSE controlsOf(TRUE)
     /\ UNCHANGED <<runtime, task>>
  \/ /\ setNoRehab /\ event' = "setNoRehab"
     /\ controls' = IF rehabRequired THEN controlsOf(FALSE) ELSE controls
     /\ UNCHANGED <<runtime, task>>
  \/ /\ setExample /\ event' = "setExample"
     /\ controls' = formReset(controls)
     /\ UNCHANGED <<runtime, task>>
  \/ /\ clearScenario /\ event' = "clearScenario"
     /\ controls' = formReset(controls)
     /\ UNCHANGED <<runtime, task>>
  \/ \E c \in TypedContents :
       /\ arvInputKeyup(valueAsNumber(c)) /\ event' = "arvInputKeyup"
       /\ controls' = [controls EXCEPT !.arvInput = c]
       /\ UNCHANGED <<runtime, task>>
  \/ \E c \in TypedContents :
       /\ rehabInputKeyup(valueAsNumber(c)) /\ event' = "rehabInputKeyup"
       /\ controls' = [controls EXCEPT !.rehabInput = c]
       /\ UNCHANGED <<runtime, task>>
  \/ \E c \in TypedContents :
       /\ purchaseInputKeyup(valueAsNumber(c)) /\ event' = "purchaseInputKeyup"
       /\ controls' = [controls EXCEPT !.purchaseInput = c]
       /\ UNCHANGED <<runtime, task>>
  \/ \E c \in TypedContents :
       /\ noRehabValueInputKeyup(valueAsNumber(c)) /\ event' = "noRehabValueInputKeyup"
       /\ controls' = [controls EXCEPT !.noRehabValueInput = c]
       /\ UNCHANGED <<runtime, task>>

ControlsSpec == Init /\ [][ControlsNext]_vars

----------------------------------------------------------------------------
(* The widget of src/unnamed/part_000.  Its script is that of               *)
(* StoplightAnalyzer.svelte line for line (the same cells, formulas and     *)
(* handlers), so the definitions above stand for it too.  Its controls are  *)
(* bound with bind:value, which stores the number typed, or null for an     *)
(* empty control; its display guard tests totalLoanAmount alone; and its    *)
(* alerts have a Depth row.                                                 *)

\* what bind:value of a number control stores
BoundValues == {Whole(a) : a \in Amounts} \cup {null}

\* bind:value of #arvInput, which exists only inside {#if rehabRequired}
arvInputBind(value) ==
  /\ rehabRequired
  /\ arvAmount' = value
  /\ UNCHANGED <<rehabRequired, rehabAmount, purchaseAmount, noRehabValue>>

rehabInputBind(value) ==
  /\ rehabRequired
  /\ rehabAmount' = value
  /\ UNCHANGED <<rehabRequired, arvAmount, purchaseAmount, noRehabValue>>

purchaseInputBind(value) ==
  /\ rehabRequired
  /\ purchaseAmount' = value
  /\ UNCHANGED <<rehabRequired, arvAmount, rehabAmount, noRehabValue>>

\* bind:value of #noRehabValueInput, which exists only in the {:else} branch
noRehabValueInputBind(value) ==
  /\ ~rehabRequired
  /\ noRehabValue' = value
  /\ UNCHANGED <<rehabRequired, arvAmount, rehabAmount, purchaseAmount>>

\* the value a method call on null or undefined throws
TypeError == [kind |-> "TypeError", n |-> 0, d |-> 1]

\* Number.prototype.toFixed(1): the number rounded to one decimal, halves
\* away from zero; NaN and the infinities give their names; null has no
\* such method
toFixed1(v) ==
  CHOOSE r \in { IF a.kind = "null" THEN TypeError
                 ELSE IF ~IsFinite(a) THEN a
                 ELSE Num(Sign(a.n) * ((2 * 10 * Abs(a.n) + a.d) \div (2 * a.d)), 10)
                 : a \in {v} } : TRUE

\* variant of part000DisplayGuard with the three tests of StoplightAnalyzer.svelte
part000DisplayGuard_ThreeTests == displayGuard

\* {#if totalLoanAmount > minLoanAmount}
part000DisplayGuard == Gt(totalLoanAmount, minLoanAmount)

\* the alert rendered inside {#if rehabRequired}
part000RehabRequiredOutcome ==
  IF part000DisplayGuard
  THEN IF Le(depth, Whole(80)) THEN "FullyFundable"
       ELSE IF Le(depth, Whole(100)) THEN "FundableWithDownpayment"
       ELSE "NotFundable"
  ELSE "NoOutcomeYet"

\* variant of part000DepthCalc that formats purchaseAmount in the Depth row
part000DepthCalc_FormatsPurchase ==
  { <<"As-Is Value", currencyFormat(asIsValue)>>,
    <<"Depth", toFixed1(purchaseAmount)>> }

\* {#snippet depthCalc()}
part000DepthCalc ==
  { <<"As-Is Value", currencyFormat(asIsValue)>>,
    <<"Depth", toFixed1(depth)>> }

\* {#snippet loanCalc()}
part000LoanCalc ==
  { <<"Purchase", currencyFormat(purchaseDraw)>>,
    <<"Rehab Amount", currencyFormat(rehabAmount)>>,
    <<"Total loan amount", currencyFormat(totalLoanAmount)>> }

\* the rows and amounts of the alert rendered inside {#if rehabRequired}
part000RehabRequiredPanel ==
  CASE part000RehabRequiredOutcome = "FullyFundable" ->
         part000DepthCalc \cup part000LoanCalc
    [] part000RehabRequiredOutcome = "FundableWithDownpayment" ->
         {<<"downpayment", currencyFormat(downpaymentNeededAmount)>>}
           \cup part000DepthCalc \cup part000LoanCalc
    [] part000RehabRequiredOutcome = "NotFundable" -> part000DepthCalc
    [] OTHER -> {}

\* the alert on screen
part000Outcome == IF rehabRequired THEN part000RehabRequiredOutcome ELSE noRehabOutcome

\* the rows on screen
part000Panel == IF rehabRequired THEN part000RehabRequiredPanel ELSE noRehabPanel

Part000Next ==
  \/ setRehabRequired /\ event' = "setRehabRequired"
       /\ UNCHANGED <<runtime, task, controls>>
  \/ setNoRehab /\ event' = "setNoRehab"
       /\ UNCHANGED <<runtime, task, controls>>
  \/ setExample /\ event' = "setExample"
       /\ UNCHANGED <<runtime, task, controls>>
  \/ clearScenario /\ event' = "clearScenario"
       /\ UNCHANGED <<runtime, task, controls>>
  \/ \E v \in BoundValues : arvInputBind(v) /\ event' = "arvInputBind"
       /\ UNCHANGED <<runtime, task, controls>>
  \/ \E v \in BoundValues : rehabInputBind(v) /\ event' = "rehabInputBind"
       /\ UNCHANGED <<runtime, task, controls>>
  \/ \E v \in BoundValues : purchaseInputBind(v) /\ event' = "purchaseInputBind"
       /\ UNCHANGED <<runtime, task, controls>>
  \/ \E v \in BoundValues : noRehabValueInputBind(v) /\ event' = "noRehabValueInputBind"
       /\ UNCHANGED <<runtime, task, controls>>

Part000Spec == Init /\ [][Part000Next]_vars

----------------------------------------------------------------------------
(* The widget of src/src/Embed.svelte: the same four cells and handlers,    *)
(* no mode cell (both tab panes are children of TabContent), depth as a     *)
(* fraction, and the display guard on totalLoanAmount alone.                *)

\* let depth = $derived(purchaseAmount / asIsValue)
embedDepth == Div(purchaseAmount, asIsValue)

\* variant of embedDisplayGuard with the three tests of StoplightAnalyzer.svelte
embedDisplayGuard_ThreeTests == displayGuard

\* {#if totalLoanAmount > minLoanAmount}
embedDisplayGuard == Gt(totalLoanAmount, minLoanAmount)

\* the Alert rendered in the Rehab Required pane
embedRehabRequiredOutcome ==
  IF embedDisplayGuard
  THEN IF Le(embedDepth, Num(8, 10)) THEN "FullyFundable"
       ELSE IF Le(embedDepth, Whole(1)) THEN "FundableWithDownpayment"
       ELSE "NotFundable"
  ELSE "NoOutcomeYet"

\* the amounts that Alert shows
embedRehabRequiredPanel ==
  CASE embedRehabRequiredOutcome = "FullyFundable" ->
         { <<"Purchase", currencyFormat(purchaseDraw)>>,
           <<"Rehab draws", currencyFormat(rehabAmount)>>,
           <<"Total loan amount", currencyFormat(totalLoanAmount)>> }
    [] embedRehabRequiredOutcome = "FundableWithDownpayment" ->
         { <<"downpayment", currencyFormat(downpaymentNeededAmount)>>,
           <<"Purchase", currencyFormat(purchaseDraw)>>,
           <<"Rehab draws", currencyFormat(rehabAmount)>>,
           <<"Total loan amount", currencyFormat(totalLoanAmount)>> }
    [] OTHER -> {}

\* the Alerts the component shows for its fields: both tab panes are rendered
embedRenderedAlerts ==
  (IF embedRehabRequiredOutcome # "NoOutcomeYet"
   THEN {<<embedRehabRequiredOutcome, embedRehabRequiredPanel>>} ELSE {})
  \cup
  (IF Gt(noRehabLoanAmount, minLoanAmount)
   THEN {<<"NoRehabFunded", {<<"No rehab", currencyFormat(noRehabLoanAmount)>>}>>}
   ELSE {})

----------------------------------------------------------------------------
(* The compiled Embed component on the runtime of src/unnamed/part_001.     *)
(* An event handler runs to its end before anything else does, and the      *)
(* microtask that schedule_effect has queued runs before the next event.    *)

\* the amounts typed into the controls: empty or 200000
RuntimeValues == {null, Whole(200000)}

\* the purchase prices typed: empty, 120000 or 200000, which with an as-is
\* value of 140000 give the three Alerts
PurchaseValues == {null, Whole(120000), Whole(200000)}

\* writes are counted up to this version
MaxWriteVersion == 24

\* no handler is running and no microtask is queued
Idle == task = <<>> /\ ~runtime.is_flushing

\* a statement set(source, value) of a handler
Write(source, value) ==
  /\ runtime' = set(runtime, source, value)
  /\ arvAmount' = runtime'.v["arvAmount"]
  /\ rehabAmount' = runtime'.v["rehabAmount"]
  /\ purchaseAmount' = runtime'.v["purchaseAmount"]
  /\ noRehabValue' = runtime'.v["noRehabValue"]
  /\ UNCHANGED <<rehabRequired, controls>>

\* set value($$value) of the #arvInput control
arvInputSetValue(value) ==
  /\ Idle
  /\ runtime.write_version < MaxWriteVersion
  /\ Write("arvAmount", value)
  /\ task' = <<>>

rehabInputSetValue(value) ==
  /\ Idle
  /\ runtime.write_version < MaxWriteVersion
  /\ Write("rehabAmount", value)
  /\ task' = <<>>

purchaseInputSetValue(value) ==
  /\ Idle
  /\ runtime.write_version < MaxWriteVersion
  /\ Write("purchaseAmount", value)
  /\ task' = <<>>

noRehabValueInputSetValue(value) ==
  /\ Idle
  /\ runtime.write_version < MaxWriteVersion
  /\ Write("noRehabValue", value)
  /\ task' = <<>>

\* setExample of the bundle: its first set; the other three are left in task
embedSetExample ==
  /\ Idle
  /\ runtime.write_version < MaxWriteVersion
  /\ Write("arvAmount", Whole(200000))
  /\ task' = << <<"noRehabValue", Whole(100000)>>,
                <<"rehabAmount", Whole(10000)>>,
                <<"purchaseAmount", Whole(80000)>> >>

embedClearScenario ==
  /\ Idle
  /\ runtime.write_version < MaxWriteVersion
  /\ Write("arvAmount", null)
  /\ task' = << <<"noRehabValue", null>>,
                <<"rehabAmount", null>>,
                <<"purchaseAmount", null>> >>

\* the next set of the running handler
nextStatement ==
  /\ task # <<>>
  /\ Write(Head(task)[1], Head(task)[2])
  /\ task' = Tail(task)
  /\ UNCHANGED event

\* the microtask queued by schedule_effect, run once the handler has returned
microtask ==
  /\ task = <<>>
  /\ runtime.microtasks > 0
  /\ runtime' = [flush_queued_root_effects(runtime) EXCEPT !.microtasks = @ - 1]
  /\ UNCHANGED <<rehabRequired, inputs, event, task, controls>>

RuntimeNext ==
  \/ \E v \in RuntimeValues : arvInputSetValue(v) /\ event' = "arvInputSetValue"
  \/ \E v \in RuntimeValues : rehabInputSetValue(v) /\ event' = "rehabInputSetValue"
  \/ \E v \in PurchaseValues : purchaseInputSetValue(v) /\ event' = "purchaseInputSetValue"
  \/ \E v \in RuntimeValues :
       noRehabValueInputSetValue(v) /\ event' = "noRehabValueInputSetValue"
  \/ embedSetExample /\ event' = "setExample"
  \/ embedClearScenario /\ event' = "clearScenario"
  \/ nextStatement
  \/ microtask

RuntimeSpec == Init /\ [][RuntimeNext]_vars

\* writes are counted up to this version where fairness is assumed
MaxFairWriteVersion == 12

\* the events of RuntimeNext while fewer than MaxFairWriteVersion writes
\* have been counted
RuntimeFairNext ==
  \/ /\ runtime.write_version < MaxFairWriteVersion
     /\ \E v \in RuntimeValues : arvInputSetValue(v) /\ event' = "arvInputSetValue"
  \/ /\ runtime.write_version < MaxFairWriteVersion
     /\ \E v \in RuntimeValues : rehabInputSetValue(v) /\ event' = "rehabInputSetValue"
  \/ /\ runtime.write_version < MaxFairWriteVersion
     /\ \E v \in PurchaseValues :
          purchaseInputSetValue(v) /\ event' = "purchaseInputSetValue"
  \/ /\ runtime.write_version < MaxFairWriteVersion
     /\ \E v \in RuntimeValues :
          noRehabValueInputSetValue(v) /\ event' = "noRehabValueInputSetValue"
  \/ /\ runtime.write_version < MaxFairWriteVersion
     /\ embedSetExample /\ event' = "setExample"
  \/ /\ runtime.write_version < MaxFairWriteVersion
     /\ embedClearScenario /\ event' = "clearScenario"
  \/ nextStatement
  \/ microtask

\* queueMicrotask runs the flush it has queued, and a handler runs to its end
RuntimeFairSpec ==
  /\ Init
  /\ [][RuntimeFairNext]_vars
  /\ WF_vars(microtask)
  /\ WF_vars(nextStatement)

\* the Alerts in the document, with the texts of their text nodes
documentAlerts ==
  { <<alert,
      CASE alert = "FullyFundable" ->
             { <<"Purchase", runtime.text["text"]>>,
               <<"Rehab draws", runtime.text["text_1"]>>,
               <<"Total loan amount", runtime.text["text_2"]>> }
        [] alert = "FundableWithDownpayment" ->
             { <<"downpayment", runtime.text["text_3"]>>,
               <<"Purchase", runtime.text["text_4"]>>,
               <<"Rehab draws", runtime.text["text_5"]>>,
               <<"Total loan amount", runtime.text["text_6"]>> }
        [] alert = "NotFundable" -> {}
        [] alert = "NoRehabFunded" -> { <<"No rehab", runtime.text["text_7"]>> } >>
    : alert \in runtime.alerts }

----------------------------------------------------------------------------
(* Integer reading of a state, used to state the properties without the    *)
(* number operators above.  It counts in thousands of dollars (every       *)
(* member of Amounts is a whole number of thousands), so that ten times    *)
(* the as-is value and a hundred times the loan amounts are integers.      *)

IsSet(v) == v.kind = "number"

\* the amount of a field in thousands of dollars; null and NaN have none
\* and read as 0
Amt(v) == IF IsSet(v) THEN v.n \div 1000 ELSE 0

\* a field that arithmetic can use: a number, or null read as 0
Usable(v) == v.kind \in {"number", "null"}

\* 10 * (0.7 * arvAmount - rehabAmount)
AsIs10 == 7 * Amt(arvAmount) - 10 * Amt(rehabAmount)

\* 100 * (0.8 * asIsValue + rehabAmount)
TotalLoan100 == 8 * AsIs10 + 100 * Amt(rehabAmount)

\* totalLoanAmount > 10000 and rehabAmount > 0 and purchaseAmount > 10000
GuardPasses ==
  /\ Usable(arvAmount) /\ IsSet(rehabAmount) /\ IsSet(purchaseAmount)
  /\ TotalLoan100 > 100 * 10
  /\ Amt(rehabAmount) > 0
  /\ Amt(purchaseAmount) > 10

Panels == {"FullyFundable", "FundableWithDownpayment", "NotFundable"}

\* the interval of depth = 100 * purchaseAmount / asIsValue, for asIsValue > 0
DepthBucket(arv, rehab, purchase) ==
  IF 1000 * purchase <= 80 * (7 * arv - 10 * rehab) THEN "le80"
  ELSE IF 1000 * purchase <= 100 * (7 * arv - 10 * rehab) THEN "le100"
  ELSE "gt100"

----------------------------------------------------------------------------
(* Properties *)

\* C1: in RehabRequired mode, when the display guard passes, exactly one of
\* the three panels is shown, chosen by depth = 100*purchaseAmount/asIsValue:
\* depth <= 80 FullyFundable (80 included), 80 < depth <= 100
\* FundableWithDownpayment (100 included), depth > 100 NotFundable.
C1_DepthThresholds ==
  (rehabRequired /\ GuardPasses) =>
    /\ outcome \in Panels
    /\ AsIs10 > 0 =>
         outcome = CASE DepthBucket(Amt(arvAmount), Amt(rehabAmount), Amt(purchaseAmount)) = "le80"
                          -> "FullyFundable"
                     [] DepthBucket(Amt(arvAmount), Amt(rehabAmount), Amt(purchaseAmount)) = "le100"
                          -> "FundableWithDownpayment"
                     [] OTHER -> "NotFundable"
    /\ AsIs10 < 0 => outcome = "FullyFundable"
    /\ AsIs10 = 0 => (depth = Infinity /\ outcome = "NotFundable")

\* depth is exactly 80 and the FullyFundable panel is shown
C1_Witness ==
  /\ rehabRequired /\ GuardPasses /\ AsIs10 > 0
  /\ 1000 * Amt(purchaseAmount) = 80 * AsIs10
  /\ outcome = "FullyFundable"

\* C2: in RehabRequired mode a panel is rendered exactly when
\* totalLoanAmount > 10000, rehabAmount > 0 and purchaseAmount > 10000 all
\* hold; otherwise (also for an unset totalLoanAmount) nothing is rendered.
C2_DisplayGuard ==
  rehabRequired => (outcome # "NoOutcomeYet" <=> GuardPasses)

\* rehabAmount = 0 with otherwise fundable numbers shows no panel
C2_Witness ==
  /\ rehabRequired
  /\ arvAmount = Whole(200000) /\ rehabAmount = Whole(0) /\ purchaseAmount = Whole(80000)
  /\ Gt(totalLoanAmount, minLoanAmount)
  /\ outcome = "NoOutcomeYet"

\* C3: if any of arvAmount, rehabAmount, purchaseAmount is unset (null or
\* NaN), every derived value that depends on it is unset and the
\* RehabRequired outcome is NoOutcomeYet.
C3_UnsetInputsUnsetDerived ==
  /\ (~IsSet(arvAmount) \/ ~IsSet(rehabAmount)) =>
       /\ asIsValue = NaN
       /\ purchaseDraw = NaN
       /\ totalLoanAmount = NaN
  /\ (~IsSet(arvAmount) \/ ~IsSet(rehabAmount) \/ ~IsSet(purchaseAmount)) =>
       /\ depth = NaN
       /\ downpaymentNeededAmount = NaN
       /\ rehabRequiredOutcome = "NoOutcomeYet"

\* C4: whenever asIsValue is zero, negative or unset, no RehabRequired
\* panel is shown, whatever purchaseAmount is.
C4_NonPositiveAsIsNoOutcome ==
  (~Usable(arvAmount) \/ ~Usable(rehabAmount) \/ AsIs10 <= 0) =>
    rehabRequiredOutcome = "NoOutcomeYet"

\* C5: with arvAmount, rehabAmount and purchaseAmount all set, the derived
\* values are asIsValue = 0.7*arv - rehab, purchaseDraw = 0.8*asIsValue,
\* totalLoanAmount = purchaseDraw + rehab, downpaymentNeededAmount =
\* purchase - purchaseDraw and, for asIsValue > 0, depth = 100*purchase/asIsValue.
C5_DerivedFormulas ==
  (IsSet(arvAmount) /\ IsSet(rehabAmount) /\ IsSet(purchaseAmount)) =>
    /\ IsFinite(asIsValue) /\ asIsValue.n * 10 = 1000 * AsIs10 * asIsValue.d
    /\ IsFinite(purchaseDraw) /\ purchaseDraw.n * 100 = 1000 * 8 * AsIs10 * purchaseDraw.d
    /\ IsFinite(totalLoanAmount)
    /\ totalLoanAmount.n * 100 = 1000 * TotalLoan100 * totalLoanAmount.d
    /\ IsFinite(downpaymentNeededAmount)
    /\ downpaymentNeededAmount.n * 100 =
         1000 * (100 * Amt(purchaseAmount) - 8 * AsIs10) * downpaymentNeededAmount.d
    /\ AsIs10 > 0 =>
         /\ IsFinite(depth)
         /\ depth.n * AsIs10 = 1000 * Amt(purchaseAmount) * depth.d

\* three set inputs with a positive as-is value and a downpayment to pay
C5_Witness ==
  /\ IsSet(arvAmount) /\ IsSet(rehabAmount) /\ IsSet(purchaseAmount)
  /\ AsIs10 > 0
  /\ Gt(downpaymentNeededAmount, Whole(0))
  /\ event = "purchaseInputKeyup"

\* input triples (arv, rehab, purchase), in dollars, to compare a state with:
\* one or two per depth interval, and one that the display guard rejects
ReferenceTriples ==
  { <<200000, 10000, 80000>>,  <<200000, 40000, 80000>>,
    <<200000, 40000, 100000>>, <<200000, 40000, 200000>>,
    <<200000, 10000, 10000>> }

PositiveAsIs(t) == 7 * t[1] - 10 * t[2] > 0

SameBucketAsState(t) ==
  DepthBucket(t[1] \div 1000, t[2] \div 1000, t[3] \div 1000)
    = DepthBucket(Amt(arvAmount), Amt(rehabAmount), Amt(purchaseAmount))

OutcomeOfTriple(t) == rehabRequiredOutcomeOf(Whole(t[1]), Whole(t[2]), Whole(t[3]))

GuardOfTriple(t) == displayGuardOf(Whole(t[1]), Whole(t[2]), Whole(t[3]))

StateIsTriple == IsSet(arvAmount) /\ IsSet(rehabAmount) /\ IsSet(purchaseAmount)

\* C6 as stated: two input triples with positive asIsValue whose depths fall
\* in the same interval (<= 80, (80,100], > 100) receive the same outcome.
C6_BucketAloneDecides ==
  \A t \in ReferenceTriples :
    (StateIsTriple /\ AsIs10 > 0 /\ PositiveAsIs(t) /\ SameBucketAsState(t)) =>
      rehabRequiredOutcome = OutcomeOfTriple(t)

\* C6 amended: two input triples with positive asIsValue that both pass the
\* display guard and whose depths fall in the same interval receive the
\* same outcome.
C6_BucketDecidesUnderGuard ==
  \A t \in ReferenceTriples :
    (StateIsTriple /\ AsIs10 > 0 /\ PositiveAsIs(t) /\ SameBucketAsState(t)
       /\ GuardPasses /\ GuardOfTriple(t)) =>
      rehabRequiredOutcome = OutcomeOfTriple(t)

\* a state at depth exactly 100 that shares the panel of a reference triple
\* at depth 200/3
C6_Witness ==
  /\ StateIsTriple /\ AsIs10 > 0 /\ GuardPasses
  /\ 1000 * Amt(purchaseAmount) = 100 * AsIs10
  /\ <<Amt(arvAmount), Amt(rehabAmount), Amt(purchaseAmount)>> # <<200, 40, 100>>
  /\ \E t \in ReferenceTriples :
       /\ PositiveAsIs(t) /\ SameBucketAsState(t) /\ GuardOfTriple(t)
       /\ rehabRequiredOutcome = OutcomeOfTriple(t)

\* C7: in NoRehab mode the outcome is NoRehabFunded, carrying
\* noRehabLoanAmount = 0.7*noRehabValue, exactly when that amount is set and
\* above 10000; noRehabValue = 100000 gives 70000, noRehabValue = 10000 gives
\* no outcome.
C7_NoRehabOutcome ==
  ~rehabRequired =>
    /\ outcome = "NoRehabFunded" <=> (IsSet(noRehabValue) /\ 7 * Amt(noRehabValue) > 10 * 10)
    /\ outcome # "NoRehabFunded" => outcome = "NoOutcomeYet"
    /\ outcome = "NoRehabFunded" =>
         /\ IsFinite(noRehabLoanAmount)
         /\ noRehabLoanAmount.n * 10 = 1000 * 7 * Amt(noRehabValue) * noRehabLoanAmount.d
    /\ noRehabValue = Whole(100000) =>
         (outcome = "NoRehabFunded" /\ noRehabLoanAmount = Whole(70000))
    /\ noRehabValue = Whole(10000) => outcome = "NoOutcomeYet"

\* noRehabValue = 100000 typed in NoRehab mode: funded with 70000
C7_Witness ==
  /\ ~rehabRequired
  /\ event = "noRehabValueInputKeyup"
  /\ noRehabValue = Whole(100000)
  /\ outcome = "NoRehabFunded"
  /\ noRehabLoanAmount = Whole(70000)

\* C8: loadExample, in any state and either mode, leaves arvAmount = 200000,
\* noRehabValue = 100000, rehabAmount = 10000, purchaseAmount = 80000 and
\* does not change the mode.
C8_LoadExample ==
  [][event' = "setExample" =>
       /\ arvAmount' = Whole(200000)
       /\ noRehabValue' = Whole(100000)
       /\ rehabAmount' = Whole(10000)
       /\ purchaseAmount' = Whole(80000)
       /\ rehabRequired' = rehabRequired]_vars

\* the example loaded while in NoRehab mode
C8_Witness ==
  /\ event = "setExample"
  /\ ~rehabRequired
  /\ inputs = <<Whole(200000), Whole(10000), Whole(80000), Whole(100000)>>

\* C9: right after loadExample in RehabRequired mode, asIsValue = 130000,
\* purchaseDraw = 104000, totalLoanAmount = 114000, downpaymentNeededAmount =
\* -24000, depth < 80, the outcome is FullyFundable and the Downpayment row
\* shows $0.00, not a positive amount.
C9_ExampleDerivedValues ==
  (event = "setExample" /\ rehabRequired) =>
    /\ asIsValue = Whole(130000)
    /\ purchaseDraw = Whole(104000)
    /\ totalLoanAmount = Whole(114000)
    /\ downpaymentNeededAmount = Whole(-24000)
    /\ IsFinite(depth) /\ depth.n < 80 * depth.d
    /\ outcome = "FullyFundable"
    /\ downpaymentRow = Whole(0)

\* the example loaded in RehabRequired mode, its panel on screen
C9_Witness ==
  /\ event = "setExample"
  /\ rehabRequired
  /\ outcome = "FullyFundable"
  /\ Lt(downpaymentNeededAmount, Whole(0))

\* C10: clear, in any state, sets arvAmount, noRehabValue, rehabAmount and
\* purchaseAmount to unset and does not change the mode; a second clear
\* right after the first leaves the InputState as the first left it.
C10_Clear ==
  [][event' = "clearScenario" =>
       /\ arvAmount' = null
       /\ noRehabValue' = null
       /\ rehabAmount' = null
       /\ purchaseAmount' = null
       /\ rehabRequired' = rehabRequired
       /\ event = "clearScenario" => inputs' = inputs]_vars

\* cleared while in NoRehab mode
C10_Witness ==
  /\ event = "clearScenario"
  /\ ~rehabRequired
  /\ inputs = <<null, null, null, null>>

\* C11: setRehabRequired and setNoRehab change the mode flag only: the four
\* monetary fields are left as they were, so the RehabRequired outcome and
\* the rows it carries are the same after a switch to NoRehab and back.
C11_ModeSwitchFrame ==
  [][event' \in {"setRehabRequired", "setNoRehab"} =>
       /\ rehabRequired' = (event' = "setRehabRequired")
       /\ arvAmount' = arvAmount
       /\ rehabAmount' = rehabAmount
       /\ purchaseAmount' = purchaseAmount
       /\ noRehabValue' = noRehabValue
       /\ rehabRequiredOutcome' = rehabRequiredOutcome
       /\ rehabRequiredPanel' = rehabRequiredPanel]_vars

\* back on the Rehab Required tab with a downpayment panel on screen
C11_Witness ==
  /\ event = "setRehabRequired"
  /\ rehabRequired
  /\ noRehabValue # null
  /\ outcome = "FundableWithDownpayment"

RowLabels(panel) == {row[1] : row \in panel}

RowText(panel, label) == (CHOOSE row \in panel : row[1] = label)[2]

\* the money amount x/100 (x in units of ten dollars) as a formatted text
Text100(x) == Num(1000 * x, 100)

\* C14 as stated: FullyFundable carries exactly asIsValue, purchaseDraw,
\* rehabAmount and totalLoanAmount; FundableWithDownpayment those four plus
\* downpaymentNeededAmount; NotFundable asIsValue only.
C14_CarriedValuesAsListed ==
  rehabRequired =>
    /\ outcome = "FullyFundable" =>
         RowLabels(rehabRequiredPanel) =
           {"As-Is Value", "Loan at Purchase", "Rehab Amount", "Total Loan Amount"}
    /\ outcome = "FundableWithDownpayment" =>
         RowLabels(rehabRequiredPanel) =
           {"As-Is Value", "Downpayment", "Loan at Purchase", "Rehab Amount",
            "Total Loan Amount"}
    /\ outcome = "NotFundable" => RowLabels(rehabRequiredPanel) = {"As-Is Value"}

\* C14 amended: FullyFundable and FundableWithDownpayment both carry
\* asIsValue, purchaseDraw, rehabAmount, totalLoanAmount and a Downpayment
\* row that shows downpaymentNeededAmount when it is positive and $0.00
\* otherwise; NotFundable carries asIsValue only.
C14_CarriedValues ==
  rehabRequired =>
    /\ outcome \in {"FullyFundable", "FundableWithDownpayment"} =>
         /\ RowLabels(rehabRequiredPanel) =
              {"As-Is Value", "Downpayment", "Loan at Purchase", "Rehab Amount",
               "Total Loan Amount"}
         /\ Cardinality(rehabRequiredPanel) = 5
         /\ RowText(rehabRequiredPanel, "As-Is Value") = Text100(10 * AsIs10)
         /\ RowText(rehabRequiredPanel, "Loan at Purchase") = Text100(8 * AsIs10)
         /\ RowText(rehabRequiredPanel, "Rehab Amount") = Text100(100 * Amt(rehabAmount))
         /\ RowText(rehabRequiredPanel, "Total Loan Amount") = Text100(TotalLoan100)
         /\ RowText(rehabRequiredPanel, "Downpayment") =
              IF 100 * Amt(purchaseAmount) - 8 * AsIs10 > 0
              THEN Text100(100 * Amt(purchaseAmount) - 8 * AsIs10)
              ELSE Text100(0)
    /\ outcome = "NotFundable" =>
         rehabRequiredPanel = {<<"As-Is Value", Text100(10 * AsIs10)>>}
    /\ outcome = "NoOutcomeYet" => rehabRequiredPanel = {}

\* a FullyFundable panel with its Downpayment row at $0.00
C14_Witness ==
  /\ rehabRequired
  /\ outcome = "FullyFundable"
  /\ <<"Downpayment", Whole(0)>> \in rehabRequiredPanel
  /\ Cardinality(rehabRequiredPanel) = 5

\* C15: a keyup stores the number of the control, whatever it is (negative,
\* below 10000, not a number), in its own field, changes no other field and
\* not the mode, and no value is refused.
C15_SetFieldStoresAsGiven ==
  /\ [](\A v \in FieldValues :
          /\ rehabRequired =>
               /\ ENABLED arvInputKeyup(v)
               /\ ENABLED rehabInputKeyup(v)
               /\ ENABLED purchaseInputKeyup(v)
          /\ ~rehabRequired => ENABLED noRehabValueInputKeyup(v))
  /\ [][\A v \in FieldValues :
         /\ (arvInputKeyup(v) /\ event' = "arvInputKeyup") =>
              /\ arvAmount' = v
              /\ <<rehabAmount, purchaseAmount, noRehabValue, rehabRequired>>'
                   = <<rehabAmount, purchaseAmount, noRehabValue, rehabRequired>>
         /\ (rehabInputKeyup(v) /\ event' = "rehabInputKeyup") =>
              /\ rehabAmount' = v
              /\ <<arvAmount, purchaseAmount, noRehabValue, rehabRequired>>'
                   = <<arvAmount, purchaseAmount, noRehabValue, rehabRequired>>
         /\ (purchaseInputKeyup(v) /\ event' = "purchaseInputKeyup") =>
              /\ purchaseAmount' = v
              /\ <<arvAmount, rehabAmount, noRehabValue, rehabRequired>>'
                   = <<arvAmount, rehabAmount, noRehabValue, rehabRequired>>
         /\ (noRehabValueInputKeyup(v) /\ event' = "noRehabValueInputKeyup") =>
              /\ noRehabValue' = v
              /\ <<arvAmount, rehabAmount, purchaseAmount, rehabRequired>>'
                   = <<arvAmount, rehabAmount, purchaseAmount, rehabRequired>>]_vars

\* a negative amount typed into the ARV control and stored
C15_Witness ==
  /\ event = "arvInputKeyup"
  /\ arvAmount = Whole(-10000)
  /\ rehabAmount = Whole(10000)

C18_MountState ==
  event = "mount" =>
    /\ rehabRequired
    /\ arvAmount = null /\ rehabAmount = null
    /\ purchaseAmount = null /\ noRehabValue = null
    /\ outcome = "NoOutcomeYet"
    /\ renderedAlerts = {}

\* the state at mount
C18_Witness ==
  /\ event = "mount"
  /\ runtime = Embed
  /\ task = <<>>
  /\ rehabRequired
  /\ inputs = <<null, null, null, null>>


\* C13: derivation and classification are total.  In every reachable state,
\* whatever the fields hold (unset, zero, negative, not a number), exactly
\* one outcome results, it is one of FullyFundable, FundableWithDownpayment,
\* NotFundable, NoOutcomeYet in RehabRequired mode and one of NoRehabFunded,
\* NoOutcomeYet in NoRehab mode, and no formatted row is an error, the Depth
\* row of part_000's depthCalc included.
C13_Total ==
  /\ rehabRequired => outcome \in Panels \cup {"NoOutcomeYet"}
  /\ ~rehabRequired => outcome \in {"NoRehabFunded", "NoOutcomeYet"}
  /\ Cardinality(renderedAlerts) <= 1
  /\ \A alert \in renderedAlerts : \A row \in alert[2] : row[2] # TypeError
  /\ \A row \in part000RehabRequiredPanel : row[2] # TypeError

\* an unset, a zero and a negative field at once, and a state where the
\* Depth row is rendered from an unset purchase price
C13_Witness ==
  /\ rehabRequired
  /\ event = "purchaseInputKeyup"
  /\ arvAmount = null /\ rehabAmount = Whole(0) /\ purchaseAmount = Whole(-10000)
  /\ outcome = "NoOutcomeYet"
  /\ depth = NegInfinity

\* C19: in Embed.svelte and part_000 the RehabRequired alert is shown exactly
\* when totalLoanAmount > 10000, whatever rehabAmount and purchaseAmount are.
C19_TotalLoanGuardOnly ==
  LET shown == Usable(arvAmount) /\ Usable(rehabAmount) /\ TotalLoan100 > 100 * 10
  IN /\ (part000RehabRequiredOutcome \in Panels) <=> shown
     /\ (part000RehabRequiredOutcome = "NoOutcomeYet") <=> ~shown
     /\ (embedRehabRequiredOutcome \in Panels) <=> shown
     /\ (embedRehabRequiredOutcome = "NoOutcomeYet") <=> ~shown

\* rehabAmount = 0 and a purchase price of 10000, where StoplightAnalyzer
\* shows nothing, and both variants show an alert
C19_Witness ==
  /\ rehabRequired
  /\ event = "rehabInputBind"
  /\ rehabAmount = Whole(0)
  /\ purchaseAmount = Whole(10000)
  /\ TotalLoan100 > 100 * 10
  /\ rehabRequiredOutcome = "NoOutcomeYet"
  /\ part000Outcome \in Panels
  /\ embedRehabRequiredOutcome \in Panels

\* C20: no alert of part_000 shows a value that is not a finite number
\* (depth, asIsValue, purchaseDraw, totalLoanAmount, downpayment).
C20_PanelValuesFinite ==
  \A row \in part000Panel : IsFinite(row[2])

\* a fresh evaluation of the formula of a derived on the fields as they are
Fresh(d) ==
  CASE d = "asIsValue" -> asIsValue
    [] d = "depth" -> embedDepth
    [] d = "purchaseDraw" -> purchaseDraw
    [] d = "totalLoanAmount" -> totalLoanAmount
    [] d = "downpaymentNeededAmount" -> downpaymentNeededAmount
    [] d = "noRehabLoanAmount" -> noRehabLoanAmount

\* C12: after each mutation the outcome shown is the one a fresh evaluation
\* gives.  The sources hold the fields as written; in every state, between
\* the writes of a handler and before the flush included, get returns for
\* each derived the value of its formula on the current fields; and once
\* the handler has returned and its microtask has run, which is before the
\* next event, the Alerts in the document and their texts are those of the
\* current fields.
C12_FreshAfterEachMutation ==
  /\ runtime.v["arvAmount"] = arvAmount
  /\ runtime.v["rehabAmount"] = rehabAmount
  /\ runtime.v["purchaseAmount"] = purchaseAmount
  /\ runtime.v["noRehabValue"] = noRehabValue
  /\ \A d \in Deriveds : get(runtime, d).v = Fresh(d)
  /\ Idle => documentAlerts = embedRenderedAlerts

\* a purchase price was typed while the fully-fundable Alert was shown, and
\* the document now shows the downpayment Alert in its place
C12_Witness ==
  /\ Idle
  /\ event = "purchaseInputSetValue"
  /\ runtime.disconnected["text"]
  /\ runtime.alerts = {"FundableWithDownpayment"}
  /\ documentAlerts = {<<"FundableWithDownpayment", embedRehabRequiredPanel>>}

----------------------------------------------------------------------------
(* binary64: the $derived expressions in the arithmetic JavaScript runs them in *)

\* A natural number of any size is the sequence of its digits in base 2^15,
\* the least significant first and the most significant not zero.
Base == 2^15

RECURSIVE BigTrim(_)
BigTrim(a) ==
  IF a = <<>> THEN <<>>
  ELSE IF a[Len(a)] = 0 THEN BigTrim(SubSeq(a, 1, Len(a) - 1))
  ELSE a

RECURSIVE BigFromInt(_)
BigFromInt(i) == IF i = 0 THEN <<>> ELSE <<i % Base>> \o BigFromInt(i \div Base)

Digit(a, i) == IF i <= Len(a) THEN a[i] ELSE 0

RECURSIVE BigAddFrom(_, _, _, _)
BigAddFrom(a, b, i, carry) ==
  IF i > Len(a) /\ i > Len(b) THEN IF carry = 0 THEN <<>> ELSE <<carry>>
  ELSE CHOOSE r \in
         { <<s % Base>> \o BigAddFrom(a, b, j + 1, s \div Base)
           : s \in {Digit(a, i) + Digit(b, i) + carry}, j \in {i} } : TRUE

BigAdd(a0, b0) ==
  CHOOSE r \in { BigTrim(BigAddFrom(a, b, 1, 0)) : a \in {a0}, b \in {b0} } : TRUE

RECURSIVE BigSubFrom(_, _, _, _)
BigSubFrom(a, b, i, borrow) ==
  IF i > Len(a) THEN <<>>
  ELSE CHOOSE r \in
         { IF s < 0 THEN <<s + Base>> \o BigSubFrom(a, b, j + 1, 1)
           ELSE <<s>> \o BigSubFrom(a, b, j + 1, 0)
           : s \in {Digit(a, i) - Digit(b, i) - borrow}, j \in {i} } : TRUE

\* a - b for a >= b
BigSub(a0, b0) ==
  CHOOSE r \in { BigTrim(BigSubFrom(a, b, 1, 0)) : a \in {a0}, b \in {b0} } : TRUE

\* -1, 0 or 1 as a < b, a = b or a > b
BigCmp(a0, b0) ==
  CHOOSE r \in
    { IF Len(a) # Len(b) THEN IF Len(a) < Len(b) THEN -1 ELSE 1
      ELSE IF \A i \in 1..Len(a) : a[i] = b[i] THEN 0
      ELSE CHOOSE c \in
             { IF a[i] < b[i] THEN -1 ELSE 1
               : i \in {CHOOSE i \in 1..Len(a) :
                          /\ a[i] # b[i]
                          /\ \A j \in (i + 1)..Len(a) : a[j] = b[j]} } : TRUE
      : a \in {a0}, b \in {b0} } : TRUE

RECURSIVE BigMulDigit(_, _, _, _)
BigMulDigit(a, k, i, carry) ==
  IF i > Len(a) THEN IF carry = 0 THEN <<>> ELSE <<carry>>
  ELSE CHOOSE r \in
         { <<s % Base>> \o BigMulDigit(a, k, j + 1, s \div Base)
           : s \in {a[i] * k + carry}, j \in {i} } : TRUE

ShiftDigit(a) == IF a = <<>> THEN <<>> ELSE <<0>> \o a

RECURSIVE BigMulFrom(_, _, _)
BigMulFrom(a, b, i) ==
  IF i > Len(b) THEN <<>>
  ELSE BigAdd(BigMulDigit(a, b[i], 1, 0), ShiftDigit(BigMulFrom(a, b, i + 1)))

BigMul(a0, b0) ==
  CHOOSE r \in { BigMulFrom(a, b, 1) : a \in {a0}, b \in {b0} } : TRUE

BigDouble(a0) == CHOOSE r \in { BigTrim(BigAddFrom(a, a, 1, 0)) : a \in {a0} } : TRUE

BigHalf(a0) ==
  CHOOSE r \in
    { IF a = <<>> THEN <<>>
      ELSE BigTrim([i \in 1..Len(a) |->
                      (a[i] \div 2) + (Digit(a, i + 1) % 2) * (Base \div 2)])
      : a \in {a0} } : TRUE

BigOdd(a0) == \E a \in {a0} : a # <<>> /\ a[1] % 2 = 1

\* the number of binary digits
BitLen(a0) ==
  CHOOSE r \in
    { IF a = <<>> THEN 0
      ELSE 15 * (Len(a) - 1)
             + (CHOOSE k \in 1..15 : 2^(k - 1) <= a[Len(a)] /\ a[Len(a)] < 2^k)
      : a \in {a0} } : TRUE

RECURSIVE BigShiftLeft(_, _)
BigShiftLeft(a0, k0) ==
  CHOOSE r \in
    { IF k = 0 THEN a
      ELSE IF k >= 15 THEN BigShiftLeft(ShiftDigit(a), k - 15)
      ELSE BigShiftLeft(BigDouble(a), k - 1)
      : a \in {a0}, k \in {k0} } : TRUE

RECURSIVE ShiftRightSticky(_, _, _, _)
\* k halvings; guard is the last binary digit dropped, sticky tells whether
\* a digit dropped before it was 1
ShiftRightSticky(q0, guard0, sticky0, k0) ==
  CHOOSE r \in
    { IF k = 0 THEN [q |-> q, guard |-> guard, sticky |-> sticky]
      ELSE ShiftRightSticky(BigHalf(q), BigOdd(q), sticky \/ guard, k - 1)
      : q \in {q0}, guard \in {guard0}, sticky \in {sticky0}, k \in {k0} } : TRUE

\* The double (-1)^s * m * 2^e. The amounts of the model keep every exponent
\* far inside the range of binary64, so no result overflows or is subnormal.
Finite64(s, m, e) == [kind |-> "number", s |-> s, m |-> m, e |-> e]

NaN64 == [kind |-> "NaN", s |-> 0, m |-> <<>>, e |-> 0]

Infinity64(s) == [kind |-> "Infinity", s |-> s, m |-> <<>>, e |-> 0]

IsZero64(x) == x.kind = "number" /\ x.m = <<>>

\* round to nearest, ties to even, to 53 binary digits
Round64(s, m0, e, inexact) ==
  CHOOSE r \in
    { IF len <= 53 THEN Finite64(s, m, e)
      ELSE CHOOSE x \in
             { Finite64(s,
                        IF sh.guard /\ (sh.sticky \/ BigOdd(sh.q))
                        THEN BigAdd(sh.q, <<1>>) ELSE sh.q,
                        e + (len - 53))
               : sh \in {ShiftRightSticky(m, FALSE, inexact, len - 53)} } : TRUE
      : <<m, len>> \in {<<a, BitLen(a)>> : a \in {m0}} } : TRUE

FromInt64(i) == Finite64(IF i < 0 THEN 1 ELSE 0, BigFromInt(Abs(i)), 0)

\* ToNumber of a bound field: null becomes +0; the fields hold whole numbers
ToNumber64(v) == FromInt64(ToNumber(v).n)

\* a * b
Mul64(x0, y0) ==
  CHOOSE r \in
    { IF x.kind = "NaN" \/ y.kind = "NaN" THEN NaN64
      ELSE IF x.kind = "number" /\ y.kind = "number"
      THEN Round64((x.s + y.s) % 2, BigMul(x.m, y.m), x.e + y.e, FALSE)
      ELSE IF IsZero64(x) \/ IsZero64(y) THEN NaN64
      ELSE Infinity64((x.s + y.s) % 2)
      : x \in {x0}, y \in {y0} } : TRUE

\* a + b on finite doubles
AddFinite64(x, y) ==
  CHOOSE r \in
    { IF x.s = y.s THEN Round64(x.s, BigAdd(a, b), e, FALSE)
      ELSE IF BigCmp(a, b) = 0 THEN Finite64(0, <<>>, 0)
      ELSE IF BigCmp(a, b) > 0 THEN Round64(x.s, BigSub(a, b), e, FALSE)
      ELSE Round64(y.s, BigSub(b, a), e, FALSE)
      : <<a, b, e>> \in
          { <<BigShiftLeft(x.m, x.e - m), BigShiftLeft(y.m, y.e - m), m>>
            : m \in {IF x.e < y.e THEN x.e ELSE y.e} } } : TRUE

\* a + b
Add64(x0, y0) ==
  CHOOSE r \in
    { IF x.kind = "NaN" \/ y.kind = "NaN" THEN NaN64
      ELSE IF x.kind = "number" /\ y.kind = "number" THEN AddFinite64(x, y)
      ELSE IF x.kind = "Infinity" /\ y.kind = "Infinity"
      THEN IF x.s = y.s THEN x ELSE NaN64
      ELSE IF x.kind = "Infinity" THEN x ELSE y
      : x \in {x0}, y \in {y0} } : TRUE

Neg64(x) == [x EXCEPT !.s = 1 - @]

\* a - b
Sub64(x, y) == Add64(x, Neg64(y))

RECURSIVE DivLoop(_, _, _, _)
\* long division, one binary digit of the quotient at a time
DivLoop(r0, d, q0, k0) ==
  CHOOSE res \in
    { IF k = 0 THEN [q |-> q, r |-> r]
      ELSE DivLoop(BigDouble(r), d, q, k - 1)
      : <<r, q, k>> \in
          { IF BigCmp(r1, d) >= 0
            THEN <<BigSub(r1, d), BigAdd(BigDouble(q1), <<1>>), k1>>
            ELSE <<r1, BigDouble(q1), k1>>
            : r1 \in {r0}, q1 \in {q0}, k1 \in {k0} } } : TRUE

\* a / b on finite doubles that are not zero: the operands are brought to the
\* same number of binary digits, and 56 digits of the quotient are rounded
DivFinite64(x, y) ==
  CHOOSE r \in
    { CHOOSE res \in
        { Round64((x.s + y.s) % 2, div.q, (x.e - sx) - (y.e - sy) - 55, div.r # <<>>)
          : div \in {DivLoop(BigShiftLeft(x.m, sx), BigShiftLeft(y.m, sy), <<>>, 55)} } : TRUE
      : <<sx, sy>> \in
          { <<IF lx < ly THEN ly - lx ELSE 0, IF ly < lx THEN lx - ly ELSE 0>>
            : lx \in {BitLen(x.m)}, ly \in {BitLen(y.m)} } } : TRUE

\* a / b
Div64(x0, y0) ==
  CHOOSE r \in
    { IF x.kind = "NaN" \/ y.kind = "NaN" THEN NaN64
      ELSE IF x.kind = "Infinity"
      THEN IF y.kind = "Infinity" THEN NaN64 ELSE Infinity64((x.s + y.s) % 2)
      ELSE IF y.kind = "Infinity" THEN Finite64((x.s + y.s) % 2, <<>>, 0)
      ELSE IF IsZero64(y)
      THEN IF IsZero64(x) THEN NaN64 ELSE Infinity64((x.s + y.s) % 2)
      ELSE IF IsZero64(x) THEN Finite64((x.s + y.s) % 2, <<>>, 0)
      ELSE DivFinite64(x, y)
      : x \in {x0}, y \in {y0} } : TRUE

\* -1, 0 or 1 for the sign of a double that is not NaN
Sign64(x) == IF IsZero64(x) THEN 0 ELSE IF x.s = 1 THEN -1 ELSE 1

\* -1, 0 or 1 as a < b, a = b or a > b, for doubles that are not NaN
Cmp64(x, y) ==
  IF Sign64(x) # Sign64(y) THEN IF Sign64(x) < Sign64(y) THEN -1 ELSE 1
  ELSE IF Sign64(x) = 0 THEN 0
  ELSE IF x.kind = "Infinity" \/ y.kind = "Infinity"
  THEN IF x.kind = y.kind THEN 0
       ELSE IF x.kind = "Infinity" THEN Sign64(x) ELSE -Sign64(x)
  ELSE CHOOSE c \in
         { Sign64(x) * BigCmp(BigShiftLeft(x.m, x.e - m), BigShiftLeft(y.m, y.e - m))
           : m \in {IF x.e < y.e THEN x.e ELSE y.e} } : TRUE

\* a <= b
Le64(x0, y0) ==
  \E x \in {x0}, y \in {y0} : x.kind # "NaN" /\ y.kind # "NaN" /\ Cmp64(x, y) <= 0

\* a > b
Gt64(x0, y0) ==
  \E x \in {x0}, y \in {y0} : x.kind # "NaN" /\ y.kind # "NaN" /\ Cmp64(x, y) > 0

\* the value of the literal n/d written in decimal digits (0.7 is 7/10): the
\* double nearest to it
DecimalLiteral64(n, d) == Div64(FromInt64(n), FromInt64(d))

asIsValue64 ==
  Sub64(Mul64(DecimalLiteral64(7, 10), ToNumber64(arvAmount)), ToNumber64(rehabAmount))

purchaseDraw64 == Mul64(DecimalLiteral64(8, 10), asIsValue64)

totalLoanAmount64 == Add64(purchaseDraw64, ToNumber64(rehabAmount))

downpaymentNeededAmount64 ==
  Sub64(ToNumber64(purchaseAmount), Mul64(DecimalLiteral64(8, 10), asIsValue64))

\* Embed.svelte: purchaseAmount / asIsValue
embedDepth64 == Div64(ToNumber64(purchaseAmount), asIsValue64)

\* part_000: 100 * purchaseAmount / asIsValue
part000Depth64 == Div64(Mul64(FromInt64(100), ToNumber64(purchaseAmount)), asIsValue64)

displayGuard64 == Gt64(totalLoanAmount64, FromInt64(10000))

embedRehabRequiredOutcome64 ==
  IF displayGuard64
  THEN IF Le64(embedDepth64, DecimalLiteral64(8, 10)) THEN "FullyFundable"
       ELSE IF Le64(embedDepth64, FromInt64(1)) THEN "FundableWithDownpayment"
       ELSE "NotFundable"
  ELSE "NoOutcomeYet"

part000RehabRequiredOutcome64 ==
  IF displayGuard64
  THEN IF Le64(part000Depth64, FromInt64(80)) THEN "FullyFundable"
       ELSE IF Le64(part000Depth64, FromInt64(100)) THEN "FundableWithDownpayment"
       ELSE "NotFundable"
  ELSE "NoOutcomeYet"

\* the numbers typed into the three fields of the Rehab Required tab
ArvAmounts64 == {20000, 21000, 100000, 175000, 200000}

RehabAmounts64 == {0, 5000, 6000, 40000}

PurchaseAmounts64 == {8000, 11760, 16000, 48000, 94000, 112000, 120000}

Binary64Next ==
  \/ \E a \in ArvAmounts64 : arvInputBind(Whole(a)) /\ event' = "arvInputBind"
       /\ UNCHANGED <<runtime, task, controls>>
  \/ \E a \in RehabAmounts64 : rehabInputBind(Whole(a)) /\ event' = "rehabInputBind"
       /\ UNCHANGED <<runtime, task, controls>>
  \/ \E a \in PurchaseAmounts64 : purchaseInputBind(Whole(a))
       /\ event' = "purchaseInputBind"
       /\ UNCHANGED <<runtime, task, controls>>
  \/ clearScenario /\ event' = "clearScenario"
       /\ UNCHANGED <<runtime, task, controls>>

Binary64Spec == Init /\ [][Binary64Next]_vars

\* C16: for every arvAmount, rehabAmount and purchaseAmount the fraction form
\* of Embed.svelte (thresholds 0.8 and 1.0) and the percentage form of
\* part_000 (thresholds 80 and 100) show the same outcome.
C16_SameOutcome == embedRehabRequiredOutcome64 = part000RehabRequiredOutcome64

\* the flush has ended with no root effect queued and without the guard
FlushEnded(rt) ==
  /\ ~rt.is_flushing
  /\ rt.queued_root_effects = 0
  /\ rt.error = "none"
  /\ rt.flush_count <= 1000

\* C21 as stated: every event is followed by a flush that ends with the queue
\* empty, the 1000-iteration guard not reached, and every derived clean.
C21_FlushEndsAllClean ==
  [][microtask =>
       /\ FlushEnded(runtime')
       /\ \A d \in Deriveds : runtime'.f[d] = "CLEAN"]_vars

\* C21: every event is followed by a flush that ends with the queue empty and
\* the guard not reached; a derived that some reaction depends on is clean
\* then, while a derived that nothing reads stays as it was marked.
C21_FlushEnds ==
  /\ [][microtask =>
          /\ FlushEnded(runtime')
          /\ \A d \in Deriveds \cup Thunks :
               runtime'.reactions[d] # {} => runtime'.f[d] = "CLEAN"]_vars
  /\ (runtime.is_flushing ~> Idle)

C21_Witness ==
  /\ Idle
  /\ event = "setExample"
  /\ runtime.flush_count = 1
  /\ runtime.f["depth"] = "CLEAN"
  /\ runtime.reactions["depth"] # {}
  /\ runtime.f["downpaymentNeededAmount"] = "DIRTY"

\* C22: with the three amounts set, purchaseDraw + downpaymentNeededAmount
\* is purchaseAmount, totalLoanAmount + downpaymentNeededAmount is
\* purchaseAmount + rehabAmount, and for a positive asIsValue depth <= 80
\* holds exactly when downpaymentNeededAmount <= 0 (depth in percent, as in
\* StoplightAnalyzer.svelte and part_000, whose $derived lines are the same).
C22_Identities ==
  (IsSet(arvAmount) /\ IsSet(rehabAmount) /\ IsSet(purchaseAmount)) =>
    /\ Cmp64(Add64(purchaseDraw64, downpaymentNeededAmount64),
             ToNumber64(purchaseAmount)) = 0
    /\ Cmp64(Add64(totalLoanAmount64, downpaymentNeededAmount64),
             Add64(ToNumber64(purchaseAmount), ToNumber64(rehabAmount))) = 0
    /\ Gt64(asIsValue64, FromInt64(0)) =>
         (Le64(part000Depth64, FromInt64(80))
            <=> Le64(downpaymentNeededAmount64, FromInt64(0)))

\* C23: whenever StoplightAnalyzer.svelte shows the FullyFundable panel,
\* totalLoanAmount >= purchaseAmount + rehabAmount, downpaymentNeededAmount
\* <= 0 and the Downpayment row shows $0.00, also for asIsValue <= 0.
C23_FullyFundableCoversDeal ==
  (rehabRequired /\ rehabRequiredOutcome = "FullyFundable") =>
    /\ Le(Add(purchaseAmount, rehabAmount), totalLoanAmount)
    /\ Le(downpaymentNeededAmount, Whole(0))
    /\ downpaymentRow = Whole(0)

\* C24: whenever a NotFundable panel is shown, in StoplightAnalyzer.svelte,
\* in part_000 or in Embed.svelte, purchaseAmount > asIsValue.
C24_NotFundableAboveAsIs ==
  /\ (rehabRequired /\ rehabRequiredOutcome = "NotFundable")
       => Gt(purchaseAmount, asIsValue)
  /\ (rehabRequired /\ part000RehabRequiredOutcome = "NotFundable")
       => Gt(purchaseAmount, asIsValue)
  /\ embedRehabRequiredOutcome = "NotFundable"
       => Gt(purchaseAmount, asIsValue)

\* asIsValue > 0 and 0 < downpaymentNeededAmount <= 0.2 * asIsValue
DownpaymentWithinFifth ==
  /\ Gt(asIsValue, Whole(0))
  /\ Gt(downpaymentNeededAmount, Whole(0))
  /\ Le(downpaymentNeededAmount, Mul(Num(2, 10), asIsValue))

\* C25: whenever a FundableWithDownpayment panel is shown, in any of the
\* three variants, asIsValue > 0 and 0 < downpaymentNeededAmount <=
\* 0.2 * asIsValue.
C25_DownpaymentBounds ==
  /\ (rehabRequired /\ rehabRequiredOutcome = "FundableWithDownpayment")
       => DownpaymentWithinFifth
  /\ (rehabRequired /\ part000RehabRequiredOutcome = "FundableWithDownpayment")
       => DownpaymentWithinFifth
  /\ embedRehabRequiredOutcome = "FundableWithDownpayment"
       => DownpaymentWithinFifth

\* an edit that raises rehabAmount only, the guard passing before and after
RehabRaised ==
  /\ rehabRequired /\ rehabRequired'
  /\ arvAmount' = arvAmount
  /\ purchaseAmount' = purchaseAmount
  /\ Gt(rehabAmount', rehabAmount)
  /\ displayGuardOf(arvAmount, rehabAmount, purchaseAmount)
  /\ displayGuardOf(arvAmount', rehabAmount', purchaseAmount')

\* C26: with arvAmount and purchaseAmount fixed and the guard passing, a
\* state classified NotFundable or FundableWithDownpayment never becomes
\* FullyFundable when only rehabAmount is raised.
C26_RehabNeverImproves ==
  [][(/\ RehabRaised
      /\ rehabRequiredOutcomeOf(arvAmount, rehabAmount, purchaseAmount)
           \in {"NotFundable", "FundableWithDownpayment"})
     => rehabRequiredOutcomeOf(arvAmount', rehabAmount', purchaseAmount')
          # "FullyFundable"]_vars

\* no variant shows an outcome, in RehabRequired mode or in NoRehab mode
NoOutcomeInEitherMode ==
  /\ rehabRequiredOutcome = "NoOutcomeYet"
  /\ part000RehabRequiredOutcome = "NoOutcomeYet"
  /\ embedRehabRequiredOutcome = "NoOutcomeYet"
  /\ noRehabOutcome = "NoOutcomeYet"
  /\ embedRenderedAlerts = {}

\* C27: right after clear, from any state, the outcome is NoOutcomeYet in
\* both modes and in every variant, and a mode switch keeps it so.
C27_ClearGivesNoOutcome ==
  [][/\ clearScenario => NoOutcomeInEitherMode'
     /\ ((setRehabRequired \/ setNoRehab) /\ NoOutcomeInEitherMode)
          => NoOutcomeInEitherMode']_vars

C27_Witness ==
  /\ event = "clearScenario"
  /\ ~rehabRequired
  /\ arvAmount = null /\ rehabAmount = null
  /\ purchaseAmount = null /\ noRehabValue = null
  /\ NoOutcomeInEitherMode

\* what is rendered: the Alerts in the document and their text nodes
Document(rt) == <<rt.alerts, rt.text, rt.condition>>

\* C28: the four writes of setExample and of clearScenario render nothing
\* themselves and queue one flush between them; the flush runs when the
\* handler has returned, and what it renders is the outcome of the four
\* fields as the handler left them.
C28_WritesThenOneFlush ==
  [][/\ runtime'.microtasks <= 1
     /\ (task # <<>> \/ task' # <<>>) => Document(runtime') = Document(runtime)
     /\ Document(runtime') # Document(runtime) =>
          /\ task = <<>> /\ task' = <<>>
          /\ runtime'.microtasks = 0
          /\ documentAlerts' = embedRenderedAlerts']_vars

C28_Witness ==
  /\ event = "clearScenario"
  /\ Len(task) = 2
  /\ runtime.microtasks = 1
  /\ arvAmount = null /\ noRehabValue = null
  /\ rehabAmount # null /\ purchaseAmount # null
  /\ runtime.alerts = {"FullyFundable", "NoRehabFunded"}

\* the control shows the value held in the field: the number, or nothing
\* for a field that holds no number
Shows(control, field) ==
  \/ control.kind = "number" /\ field = control
  \/ control.kind = "empty" /\ field.kind \in {"null", "NaN"}

\* C29: in StoplightAnalyzer.svelte each input control in the document shows
\* the value held in its field, after any sequence of key edits, Show
\* Example, Clear Scenario and mode switches.
C29_ControlsShowFields ==
  /\ rehabRequired =>
       /\ Shows(controls.arvInput, arvAmount)
       /\ Shows(controls.rehabInput, rehabAmount)
       /\ Shows(controls.purchaseInput, purchaseAmount)
  /\ ~rehabRequired => Shows(controls.noRehabValueInput, noRehabValue)

====
